---- MODULE Spec2Model ----
(***************************************************************************)
(* State-machine model of the flag-football rotation engine.               *)
(*                                                                         *)
(*   src/src/App.jsx       v7, balanced-group captains                     *)
(*                         (Spec, SpecRoster, SpecSeason, SpecFair,        *)
(*                          SpecElig, SpecBench, SpecOpening,              *)
(*                          SpecFormation, SpecCaptains, SpecImport)       *)
(*   src/unnamed/part_001  v7 with bench priorities and role allow-lists   *)
(*                         (SpecElig, SpecPriority)                        *)
(*   src/unnamed/part_000  v6, alphabetical captain queue with IOUs        *)
(*                         (SpecAlphabetical)                              *)
(*                                                                         *)
(* The React state object is the set of variables below.  Every handler    *)
(* is an operator from a state record to the set of state records it can   *)
(* produce (the random draws are the only nondeterminism); an action       *)
(* applies a handler and then the useEffect hooks that run after it.       *)
(***************************************************************************)
EXTENDS Integers, Sequences, FiniteSets, TLC

VARIABLES
  roster,              \* state.roster: name-sorted sequence of player records
  queue,               \* state.queue: bench queue, sequence of player ids
  series,              \* state.series: series counter
  history,             \* state.history: sequence of history entries
  settings,            \* state.settings: teamSize, noRepeatWindow
  recentRoleByPlayer,  \* state.recentRoleByPlayer: id -> {role family, series}
  captainPlan,         \* state.captainPlan (App.jsx)
  gameNumber,          \* state.gameNumber
  seasonHistory,       \* state.seasonHistory
  benchMeta,           \* state.benchMeta (part_001)
  captainQueue,        \* state.captainQueue (part_000): ids in alphabetical order
  captainIndex,        \* state.captainIndex (part_000): pointer into captainQueue
  captainIOUs,         \* state.captainIOUs (part_000): ids owed a captain turn
  nextId,              \* number of ids crypto.randomUUID() has handed out, plus one
  variant              \* the source file whose App component runs

vars == <<roster, queue, series, history, settings, recentRoleByPlayer,
          captainPlan, gameNumber, seasonHistory, benchMeta, captainQueue,
          captainIndex, captainIOUs, nextId, variant>>

(***************************************************************************)
(* Bounds of the model.                                                    *)
(***************************************************************************)
InitPlayers == 3     \* players in the roster the program starts from
MaxIds == 4          \* ids ever handed out (initial players and addPlayer)
MaxSeries == 2       \* history entries alive at once
MaxTeamSize == 2     \* largest value typed into the team-size field
MaxGames == 2        \* largest game number reached by startNewGame
MaxSits == 2          \* a series starts only while every sits count is below this
MaxToggleId == 1     \* players (by id) whose attendance box is used
MaxCaptainRounds == 2   \* in SpecCaptains a pick is accepted only while every captain count is below this
MaxGamesRemaining == 4  \* largest value typed into the games-remaining field
MaxExtraPlayers == 9    \* calculateCaptainGroups is also applied to this many players more than are active
MaxExtraGames == 2      \* and to this many games more than remain
MaxTargetCount == 3     \* largest count asked of pickCaptainsAlphabetical
MaxCaptains == 1     \* a captain pick is accepted only while every captain count is below this

(***************************************************************************)
(* Generic helpers.                                                        *)
(***************************************************************************)
Max(a, b) == IF a >= b THEN a ELSE b
Min(a, b) == IF a <= b THEN a ELSE b
Range(f) == {f[x] : x \in DOMAIN f}
EmptyMap == [x \in {} |-> x]

\* Array.prototype.slice(from, to): negative indexes count from the end,
\* out-of-range indexes are clamped.
SliceIndex(i, n) == IF i < 0 THEN Max(n + i, 0) ELSE Min(i, n)
Slice(arr, from, to) ==
  SubSeq(arr, SliceIndex(from, Len(arr)) + 1, SliceIndex(to, Len(arr)))
SliceFrom(arr, from) == SubSeq(arr, SliceIndex(from, Len(arr)) + 1, Len(arr))

(***************************************************************************)
(* Formation.                                                              *)
(***************************************************************************)
OFFENSE_ROLES ==
  <<"off_te_left", "off_c", "off_te_right", "off_wr",
    "off_rb_left", "off_qb", "off_rb_right">>
DEFENSE_ROLES ==
  <<"def_cb_left", "def_de_left", "def_dt", "def_de_right",
    "def_cb_right", "def_spy", "def_blitzer">>
AllRoles == Range(OFFENSE_ROLES) \cup Range(DEFENSE_ROLES)

ROLE_META ==
  [r \in AllRoles |->
     CASE r \in {"off_te_left", "off_te_right"} -> "TE"
       [] r = "off_c" -> "C"
       [] r = "off_wr" -> "WR"
       [] r \in {"off_rb_left", "off_rb_right"} -> "RB"
       [] r = "off_qb" -> "QB"
       [] r \in {"def_cb_left", "def_cb_right"} -> "CB"
       [] r \in {"def_de_left", "def_de_right"} -> "DE"
       [] r = "def_dt" -> "DT"
       [] r = "def_spy" -> "Spy"
       [] r = "def_blitzer" -> "Blitzer"]

\* role.replace(/\d+$/, ""): only the legacy keys end in digits.
StripTrailingDigits(role) ==
  CASE role \in {"RB1", "RB2"} -> "RB"
    [] role \in {"TE1", "TE2"} -> "TE"
    [] role \in {"DE1", "DE2"} -> "DE"
    [] role \in {"CB1", "CB2"} -> "CB"
    [] OTHER -> role

roleGroup(role) ==
  IF role \in AllRoles THEN ROLE_META[role] ELSE StripTrailingDigits(role)

\* ROLE_ABILITY_CHECK[role](player); roles without an entry have no check.
ROLE_ABILITY_CHECK(role, player) ==
  CASE role = "off_qb" -> player.canQB # FALSE
    [] role = "off_c" -> player.canCenter # FALSE
    [] OTHER -> TRUE

DEFAULT_CAPTAIN_GAMES == 3
DEFAULT_TEAM_SIZE == 7

(***************************************************************************)
(* Names.  NameOrder lists every name of the model in localeCompare order; *)
(* toLowerCase is a table over the same names.                             *)
(***************************************************************************)
DEFAULT_ROSTER ==
  <<"Atticus", "Barrett", "CJ", "Elijah", "Gunnar",
    "Jeremiah", "Logan L", "Logan M", "Niko", "Sully">>
PromptNames == {"", "atticus", "Zane"}
NameOrder ==
  <<"atticus", "Atticus", "Barrett", "CJ", "Elijah", "Gunnar",
    "Jeremiah", "Logan L", "Logan M", "Niko", "Sully", "Zane">>
NameRank(name) == CHOOSE i \in DOMAIN NameOrder : NameOrder[i] = name
localeCompare(a, b) == NameRank(a) - NameRank(b)
toLowerCase(name) ==
  CASE name = "Atticus" -> "atticus"
    [] name = "Barrett" -> "barrett"
    [] name = "CJ" -> "cj"
    [] name = "Elijah" -> "elijah"
    [] name = "Gunnar" -> "gunnar"
    [] name = "Jeremiah" -> "jeremiah"
    [] name = "Logan L" -> "logan l"
    [] name = "Logan M" -> "logan m"
    [] name = "Niko" -> "niko"
    [] name = "Sully" -> "sully"
    [] name = "Zane" -> "zane"
    [] OTHER -> name

\* Array.prototype.sort by name (stable): insertion of each element after the
\* elements that do not compare greater.
RECURSIVE SortByName(_)
SortByName(players) ==
  IF players = <<>> THEN <<>>
  ELSE LET n == Len(players)
           last == players[n]
           front == SortByName(SubSeq(players, 1, n - 1))
           keep == Cardinality({i \in DOMAIN front :
                                  localeCompare(front[i].name, last.name) <= 0})
       IN SubSeq(front, 1, keep) \o <<last>> \o SubSeq(front, keep + 1, Len(front))

(***************************************************************************)
(* Roster model.                                                           *)
(***************************************************************************)
createEmptyTallies(name, id) ==
  [name |-> name, active |-> TRUE, sits |-> 0, captains |-> 0,
   pos |-> [r \in AllRoles |-> 0], id |-> id, canQB |-> TRUE, canCenter |-> TRUE]

byId(s, id) == CHOOSE p \in Range(s.roster) : p.id = id
activePlayers(s) == SelectSeq(s.roster, LAMBDA p : p.active)
ActiveIdSeq(players) ==
  LET act == SelectSeq(players, LAMBDA p : p.active)
  IN [i \in DOMAIN act |-> act[i].id]
totalActive(s) == Len(activePlayers(s))
sitCount(s) == Max(totalActive(s) - s.settings.teamSize, 0)

\* variant: the remainder goes to the first groups
calculateCaptainGroupsFront(playerCount, gamesRemaining) ==
  LET games == Max(1, IF gamesRemaining = 0 THEN DEFAULT_CAPTAIN_GAMES ELSE gamesRemaining)
      base == playerCount \div games
      remainder == playerCount % games
      groups == [i \in 1..games |-> IF i <= remainder THEN base + 1 ELSE base]
  IN IF playerCount <= 0 THEN <<>> ELSE SelectSeq(groups, LAMBDA size : size > 0)

calculateCaptainGroups(playerCount, gamesRemaining) ==
  LET games == Max(1, IF gamesRemaining = 0 THEN DEFAULT_CAPTAIN_GAMES ELSE gamesRemaining)
      base == playerCount \div games
      remainder == playerCount % games
      groups == [i \in 1..games |-> IF i > games - remainder THEN base + 1 ELSE base]
  IN IF playerCount <= 0 THEN <<>> ELSE SelectSeq(groups, LAMBDA size : size > 0)

captainGroups(s) == calculateCaptainGroups(totalActive(s), s.captainPlan.gamesRemaining)
nextCaptainGroupSize(s) ==
  LET groups == captainGroups(s)
  IN IF Len(groups) > 0
     THEN groups[Min(s.captainPlan.nextGroupIndex, Len(groups) - 1) + 1]
     ELSE 0

\* nextGroupIndex clamped to the groups of a roster (addPlayer, removePlayer,
\* toggleActive all recompute it the same way).
ClampGroupIndex(s, players) ==
  LET groups == calculateCaptainGroups(Len(SelectSeq(players, LAMBDA p : p.active)),
                                       s.captainPlan.gamesRemaining)
  IN Min(s.captainPlan.nextGroupIndex, Max(Len(groups) - 1, 0))

(***************************************************************************)
(* useEffect hooks that run after every state change.                      *)
(***************************************************************************)
\* Keep queue limited to active players (preserve order among actives).
queueEffect(s) ==
  LET activeIds == ActiveIdSeq(s.roster)
      filtered == SelectSeq(s.queue, LAMBDA id : id \in Range(activeIds))
      missing == SelectSeq(activeIds, LAMBDA id : id \notin Range(filtered))
  IN IF Len(filtered) # Len(s.queue) \/ Len(missing) > 0
     THEN [s EXCEPT !.queue = filtered \o missing]
     ELSE s

\* Trim pending captain picks to the current group size.
pendingEffect(s) ==
  LET pending == s.captainPlan.pendingPicks
      size == nextCaptainGroupSize(s)
  IN IF size >= 0 /\ Len(pending) > size
     THEN [s EXCEPT !.captainPlan.pendingPicks = Slice(pending, 0, size)]
     ELSE s

Effects(s) == pendingEffect(queueEffect(s))

(***************************************************************************)
(* Position assignment engine (random + balanced per game), App.jsx.       *)
(*                                                                         *)
(* rngShuffle can return every permutation of its argument, and the only   *)
(* use of a shuffled pool is its first element: a pool is kept in array    *)
(* order and pickForRole yields each of its members.                       *)
(***************************************************************************)
\* candidates not yet assigned this series that pass the role's ability check
\* variant: a player already holding a role in this series stays a candidate
allowedForRoleReusing(s, role, candidates, alreadyAssigned) ==
  SelectSeq(candidates,
            LAMBDA id : /\ \E p \in Range(s.roster) : p.id = id
                        /\ ROLE_ABILITY_CHECK(role, byId(s, id)))

\* variant: the ability flags are not consulted
allowedForRoleAnyAbility(s, role, candidates, alreadyAssigned) ==
  SelectSeq(candidates,
            LAMBDA id : /\ id \notin alreadyAssigned
                        /\ \E p \in Range(s.roster) : p.id = id)

allowedForRole(s, role, candidates, alreadyAssigned) ==
  SelectSeq(candidates,
            LAMBDA id : /\ id \notin alreadyAssigned
                        /\ \E p \in Range(s.roster) : p.id = id
                        /\ ROLE_ABILITY_CHECK(role, byId(s, id)))

\* a player whose last role was of this role's family within the window
repeatBlocked(s, role, id, currentSeries) ==
  /\ id \in DOMAIN s.recentRoleByPlayer
  /\ s.recentRoleByPlayer[id].series >= currentSeries - s.settings.noRepeatWindow
  /\ s.recentRoleByPlayer[id].role = roleGroup(role)

\* variant: the no-repeat filter is never applied
noRepeatPoolOff(s, role, pool, currentSeries) == pool

\* no-repeat filter, dropped when it would empty the pool
noRepeatPool(s, role, pool, currentSeries) ==
  LET filtered == SelectSeq(pool, LAMBDA id : ~repeatBlocked(s, role, id, currentSeries))
  IN IF s.settings.noRepeatWindow > 0 /\ Len(filtered) > 0 THEN filtered ELSE pool

\* variant: the role counts are not balanced
balancedPoolOff(s, role, pool) == pool

\* zero-count players first, otherwise the players at the minimum count
balancedPool(s, role, pool) ==
  LET zeroPool == SelectSeq(pool, LAMBDA id : byId(s, id).pos[role] = 0)
      counts == {byId(s, id).pos[role] : id \in Range(pool)}
      minCount == CHOOSE c \in counts : \A d \in counts : c <= d
      minPool == SelectSeq(pool, LAMBDA id : byId(s, id).pos[role] = minCount)
  IN IF Len(zeroPool) > 0 THEN zeroPool ELSE minPool

\* variant: a pool of one is treated as empty
eligiblePoolForRoleSparing(s, role, candidates, alreadyAssigned, currentSeries) ==
  LET allowed == allowedForRole(s, role, candidates, alreadyAssigned)
  IN IF Len(allowed) <= 1 THEN <<>>
     ELSE balancedPool(s, role, noRepeatPool(s, role, allowed, currentSeries))

eligiblePoolForRole(s, role, candidates, alreadyAssigned, currentSeries) ==
  LET allowed == allowedForRole(s, role, candidates, alreadyAssigned)
  IN IF Len(allowed) = 0 THEN <<>>
     ELSE balancedPool(s, role, noRepeatPool(s, role, allowed, currentSeries))

\* the ids pickForRole can return; the empty set stands for null
pickForRole(s, role, candidates, alreadyAssigned, currentSeries) ==
  Range(eligiblePoolForRole(s, role, candidates, alreadyAssigned, currentSeries))

\* the for-loop over a phase's roles: every mapping it can build
RECURSIVE AssignRoles(_, _, _, _, _, _)
AssignRoles(s, roles, i, playIds, mapping, currentSeries) ==
  IF i > Len(roles) THEN {mapping}
  ELSE LET picks == pickForRole(s, roles[i], playIds, Range(mapping), currentSeries)
       IN IF picks = {}
          THEN AssignRoles(s, roles, i + 1, playIds, mapping, currentSeries)
          ELSE UNION {AssignRoles(s, roles, i + 1, playIds,
                                  mapping @@ (roles[i] :> id), currentSeries)
                        : id \in picks}

\* a history entry's offense / defense field: null, or a role -> id mapping
NullMapping == [null |-> TRUE]
SomeMapping(m) == [null |-> FALSE, map |-> m]
EntryMapping(e) ==
  IF e.phase = "Offense" THEN e.offense ELSE e.defense
PhaseRoles(which) == IF which = "Offense" THEN OFFENSE_ROLES ELSE DEFENSE_ROLES

\* variant: every assigned player is counted under the first role of the phase
RoleOfPlayerFirstRole(roles, mapping, id) ==
  IF \E r \in DOMAIN mapping : mapping[r] = id THEN roles[1] ELSE ""

\* Object.entries(mapping).find(([, pid]) => pid === id)?.[0]: the first role,
\* in insertion order, that maps to id ("" when there is none)
RoleOfPlayer(roles, mapping, id) ==
  LET hits == SelectSeq(roles, LAMBDA r : r \in DOMAIN mapping /\ mapping[r] = id)
  IN IF Len(hits) > 0 THEN hits[1] ELSE ""
\* the role written last for id by Object.entries(mapping).forEach
LastRoleOfPlayer(roles, mapping, id) ==
  LET hits == SelectSeq(roles, LAMBDA r : r \in DOMAIN mapping /\ mapping[r] = id)
  IN hits[Len(hits)]

\* variant: only an empty team is rejected
seriesRejectedWhenEmpty(s) == totalActive(s) = 0
\* variant: the advance is the sit count, zero when nobody sits
seriesAdvanceNoFloor(s) == sitCount(s)
\* variant: the queue moves on by one player, however many sit
seriesAdvanceOne(s) == 1
\* variant: the playing ids are taken from the head of the queue
seriesPlayIdsFromHead(s) == Slice(s.queue, 0, s.settings.teamSize)
\* variant: the queue is left as it was
rotateQueueStill(q, advance) == q
\* variant: the rotated tail takes one entry too many
rotateQueueOverlap(q, advance) == SliceFrom(q, advance) \o Slice(q, 0, advance + 1)

seriesRejected(s) == totalActive(s) < s.settings.teamSize
seriesAdvance(s) == Max(1, sitCount(s))
seriesSitIds(s) == Slice(s.queue, 0, sitCount(s))
seriesPlayIds(s) == Slice(s.queue, sitCount(s), sitCount(s) + s.settings.teamSize)
rotateQueue(q, advance) == SliceFrom(q, advance) \o Slice(q, 0, advance)

\* the state nextSeries sets once the mapping has been drawn
\* (roles is the order in which the roles were inserted into the mapping)
\* variant: the memory is rebuilt from the series alone
recentUpdateFresh(s, roles, mapping, currentSeries) ==
  [pid \in Range(mapping) |->
     [role |-> roleGroup(LastRoleOfPlayer(roles, mapping, pid)), series |-> currentSeries]]

\* recentUpdate: the memory with the entry of every assigned player replaced
recentUpdate(s, roles, mapping, currentSeries) ==
  [pid \in DOMAIN s.recentRoleByPlayer \cup Range(mapping) |->
     IF pid \in Range(mapping)
     THEN [role |-> roleGroup(LastRoleOfPlayer(roles, mapping, pid)),
           series |-> currentSeries]
     ELSE s.recentRoleByPlayer[pid]]

applySeriesIn(s, which, roles, mapping) ==
  LET currentSeries == s.series + 1
      sitIds == seriesSitIds(s)
      playIds == seriesPlayIds(s)
      entry == [phase |-> which, series |-> currentSeries,
                sitIds |-> sitIds, playIds |-> playIds,
                offense |-> IF which = "Offense" THEN SomeMapping(mapping) ELSE NullMapping,
                defense |-> IF which = "Offense" THEN NullMapping ELSE SomeMapping(mapping),
                recentBefore |-> s.recentRoleByPlayer]
      updatedRoster ==
        [i \in DOMAIN s.roster |->
           LET p == s.roster[i]
               myRole == RoleOfPlayer(roles, mapping, p.id)
           IN IF p.id \in Range(sitIds) THEN [p EXCEPT !.sits = p.sits + 1]
              ELSE IF myRole # "" THEN [p EXCEPT !.pos[myRole] = p.pos[myRole] + 1]
              ELSE p]
  IN [s EXCEPT !.roster = updatedRoster,
               !.queue = rotateQueue(s.queue, seriesAdvance(s)),
               !.series = currentSeries,
               !.history = Append(s.history, entry),
               !.recentRoleByPlayer = recentUpdate(s, roles, mapping, currentSeries)]

\* variant: every series is recorded as an Offense series
applySeriesAsOffense(s, which, mapping) ==
  applySeriesIn(s, "Offense", PhaseRoles(which), mapping)

applySeries(s, which, mapping) == applySeriesIn(s, which, PhaseRoles(which), mapping)

\* every state nextSeries(which) can leave; {s} when the call is rejected
nextSeries(s, which) ==
  IF seriesRejected(s) THEN {s}
  ELSE {applySeries(s, which, m) :
          m \in AssignRoles(s, PhaseRoles(which), 1, seriesPlayIds(s),
                            EmptyMap, s.series + 1)}

normalizeRecentMap(map) ==
  [pid \in DOMAIN map |->
     [role |-> roleGroup(map[pid].role), series |-> map[pid].series]]

\* variant: undo rotates the queue the same way nextSeries did
unrotateQueueLeft(q, advance) == SliceFrom(q, advance) \o Slice(q, 0, advance)

undoAdvance(s) == Max(1, Max(totalActive(s) - s.settings.teamSize, 0))
unrotateQueue(q, advance) == SliceFrom(q, 0 - advance) \o Slice(q, 0, 0 - advance)

\* (roles is the insertion order of the undone entry's mapping)
undoIn(s, roles) ==
  IF Len(s.history) = 0 THEN s
  ELSE LET last == s.history[Len(s.history)]
           mapping == EntryMapping(last)
           restored ==
             [i \in DOMAIN s.roster |->
                LET p == s.roster[i]
                    myRole == IF mapping.null THEN ""
                              ELSE RoleOfPlayer(roles, mapping.map, p.id)
                IN IF p.id \in Range(last.sitIds)
                   THEN [p EXCEPT !.sits = Max(0, p.sits - 1)]
                   ELSE IF myRole # ""
                   THEN [p EXCEPT !.pos[myRole] = Max(0, p.pos[myRole] - 1)]
                   ELSE p]
       IN [s EXCEPT !.roster = restored,
                    !.queue = unrotateQueue(s.queue, undoAdvance(s)),
                    !.series = Max(0, s.series - 1),
                    !.history = Slice(s.history, 0, -1),
                    !.recentRoleByPlayer = normalizeRecentMap(last.recentBefore)]

\* variant: with no history the queue is still rotated back
undoUnguarded(s) ==
  IF Len(s.history) = 0
  THEN [s EXCEPT !.queue = unrotateQueue(s.queue, undoAdvance(s))]
  ELSE undoIn(s, PhaseRoles(s.history[Len(s.history)].phase))

undo(s) ==
  IF Len(s.history) = 0 THEN s
  ELSE undoIn(s, PhaseRoles(s.history[Len(s.history)].phase))

(***************************************************************************)
(* Resets, roster actions and settings, App.jsx.                           *)
(***************************************************************************)
ZeroPositions(p) == [p EXCEPT !.pos = [k \in DOMAIN p.pos |-> 0]]

resetPositionsAndSits(s) ==
  [s EXCEPT !.roster = [i \in DOMAIN s.roster |->
                          [ZeroPositions(s.roster[i]) EXCEPT !.sits = 0]],
            !.series = 0,
            !.history = <<>>,
            !.recentRoleByPlayer = EmptyMap]

resetPositionsOnly(s) ==
  [s EXCEPT !.roster = [i \in DOMAIN s.roster |-> ZeroPositions(s.roster[i])],
            !.series = 0,
            !.history = <<>>,
            !.recentRoleByPlayer = EmptyMap]

\* the summary archived by startNewGame (endedAt, a wall-clock stamp, is left out)
gameSummary(s) ==
  LET act == activePlayers(s)
  IN [game |-> s.gameNumber,
      attendance |-> [i \in DOMAIN act |-> act[i].name],
      seriesPlayed |-> Len(s.history)]

startNewGameKeepingSits(s) ==
  LET base == [i \in DOMAIN s.roster |-> ZeroPositions(s.roster[i])]
  IN [s EXCEPT !.roster = base,
               !.queue = ActiveIdSeq(base),
               !.series = 0,
               !.history = <<>>,
               !.recentRoleByPlayer = EmptyMap,
               !.gameNumber = s.gameNumber + 1,
               !.seasonHistory = Append(s.seasonHistory, gameSummary(s)),
               !.captainPlan.recentPicks = <<>>,
               !.captainPlan.pendingPicks = <<>>]

startNewGame(s) ==
  LET base == [i \in DOMAIN s.roster |->
                 [ZeroPositions(s.roster[i]) EXCEPT !.sits = 0]]
  IN [s EXCEPT !.roster = base,
               !.queue = ActiveIdSeq(base),
               !.series = 0,
               !.history = <<>>,
               !.recentRoleByPlayer = EmptyMap,
               !.gameNumber = s.gameNumber + 1,
               !.seasonHistory = Append(s.seasonHistory, gameSummary(s)),
               !.captainPlan.recentPicks = <<>>,
               !.captainPlan.pendingPicks = <<>>]

nameExists(s, name) ==
  \E p \in Range(s.roster) : toLowerCase(p.name) = toLowerCase(name)

\* addPlayer with the prompt's answer; id is the fresh crypto.randomUUID()
addPlayer(s, name, id) ==
  IF name = "" THEN s
  ELSE LET newRoster == IF nameExists(s, name) THEN s.roster
                        ELSE SortByName(Append(s.roster, createEmptyTallies(name, id)))
       IN [s EXCEPT !.roster = newRoster,
                    !.queue = ActiveIdSeq(newRoster),
                    !.captainPlan.seasonTargetTotal = Len(newRoster) * 2,
                    !.captainPlan.nextGroupIndex = ClampGroupIndex(s, newRoster)]

removePlayerKeepingReferences(s, id) ==
  LET newRoster == SelectSeq(s.roster, LAMBDA p : p.id # id)
  IN [s EXCEPT !.roster = newRoster,
               !.queue = SelectSeq(s.queue, LAMBDA q : q # id),
               !.captainPlan.seasonTargetTotal = Len(newRoster) * 2,
               !.captainPlan.nextGroupIndex = ClampGroupIndex(s, newRoster)]

removePlayer(s, id) ==
  LET newRoster == SelectSeq(s.roster, LAMBDA p : p.id # id)
  IN [s EXCEPT !.roster = newRoster,
               !.queue = SelectSeq(s.queue, LAMBDA q : q # id),
               !.captainPlan.seasonTargetTotal = Len(newRoster) * 2,
               !.captainPlan.nextGroupIndex = ClampGroupIndex(s, newRoster),
               !.captainPlan.recentPicks =
                   SelectSeq(s.captainPlan.recentPicks, LAMBDA pid : pid # id),
               !.captainPlan.pendingPicks =
                   SelectSeq(s.captainPlan.pendingPicks, LAMBDA pid : pid # id),
               !.recentRoleByPlayer =
                   [pid \in DOMAIN s.recentRoleByPlayer \ {id} |-> s.recentRoleByPlayer[pid]]]

toggleActive(s, id) ==
  LET willBeActive == IF \E p \in Range(s.roster) : p.id = id
                      THEN ~byId(s, id).active ELSE FALSE
      newRoster == [i \in DOMAIN s.roster |->
                      IF s.roster[i].id = id
                      THEN [s.roster[i] EXCEPT !.active = ~s.roster[i].active]
                      ELSE s.roster[i]]
  IN [s EXCEPT !.roster = newRoster,
               !.queue = ActiveIdSeq(newRoster),
               !.captainPlan.nextGroupIndex = ClampGroupIndex(s, newRoster),
               !.captainPlan.pendingPicks =
                   IF willBeActive THEN s.captainPlan.pendingPicks
                   ELSE SelectSeq(s.captainPlan.pendingPicks, LAMBDA pid : pid # id)]

toggleAbilityFlag(s, id, key) ==
  [s EXCEPT !.roster =
     [i \in DOMAIN s.roster |->
        IF s.roster[i].id = id
        THEN [s.roster[i] EXCEPT ![key] = ~s.roster[i][key]]
        ELSE s.roster[i]]]

\* the team-size field: Math.max(1, Math.floor(+value || 7))
setTeamSize(s, value) ==
  [s EXCEPT !.settings.teamSize = Max(1, IF value = 0 THEN DEFAULT_TEAM_SIZE ELSE value)]

\* the no-repeat checkbox
toggleNoRepeat(s) ==
  [s EXCEPT !.settings.noRepeatWindow = IF s.settings.noRepeatWindow # 0 THEN 0 ELSE 1]

\* every order rngShuffle can return
RECURSIVE rngShuffle(_)
rngShuffle(arr) ==
  IF arr = <<>> THEN {<<>>}
  ELSE UNION {{<<arr[i]>> \o rest :
                 rest \in rngShuffle(SubSeq(arr, 1, i - 1) \o SubSeq(arr, i + 1, Len(arr)))}
                : i \in DOMAIN arr}

(***************************************************************************)
(* Captains (balanced groups).                                             *)
(***************************************************************************)
\* variant: every pick fills the first group
captainTargetCountFirst(s) ==
  LET groups == captainGroups(s)
  IN IF Len(groups) = 0 THEN 0 ELSE groups[1]

\* the group the next pick fills: groups[min(nextGroupIndex, length - 1)]
captainTargetCount(s) ==
  LET groups == captainGroups(s)
  IN IF Len(groups) = 0 THEN 0
     ELSE groups[Min(s.captainPlan.nextGroupIndex, Len(groups) - 1) + 1]

\* variant: the comparator looks at the names only
captainCompareByName(a, b) == localeCompare(a.name, b.name)

\* the comparator of pickNextCaptains: fewest captaincies first, then by name
captainCompare(a, b) ==
  IF a.captains - b.captains # 0 THEN a.captains - b.captains
  ELSE localeCompare(a.name, b.name)

\* Array.prototype.sort under captainCompare (stable insertion)
RECURSIVE SortForCaptains(_)
SortForCaptains(players) ==
  IF players = <<>> THEN <<>>
  ELSE LET n == Len(players)
           last == players[n]
           front == SortForCaptains(SubSeq(players, 1, n - 1))
           keep == Cardinality({i \in DOMAIN front : captainCompare(front[i], last) <= 0})
       IN SubSeq(front, 1, keep) \o <<last>> \o SubSeq(front, keep + 1, Len(front))

\* the handler for one result of rngShuffle(activePlayersState)
pickNextCaptainsFrom(s, shuffled) ==
  LET targetCount == captainTargetCount(s)
      sorted == SortForCaptains(shuffled)
      picks == [i \in 1..Min(targetCount, Len(sorted)) |-> sorted[i].id]
  IN IF totalActive(s) = 0 \/ targetCount = 0 \/ picks = <<>> THEN s
     ELSE [s EXCEPT !.captainPlan.pendingPicks = picks]

\* every state pickNextCaptains can leave
pickNextCaptains(s) ==
  {pickNextCaptainsFrom(s, shuffled) : shuffled \in rngShuffle(activePlayers(s))}

clearPendingCaptains(s) == [s EXCEPT !.captainPlan.pendingPicks = <<>>]

togglePendingCaptain(s, id) ==
  LET targetCount == captainTargetCount(s)
      pending == s.captainPlan.pendingPicks
  IN IF id \notin Range(ActiveIdSeq(s.roster)) \/ targetCount = 0 THEN s
     ELSE IF id \in Range(pending)
     THEN [s EXCEPT !.captainPlan.pendingPicks = SelectSeq(pending, LAMBDA pid : pid # id)]
     ELSE IF Len(pending) >= targetCount THEN s
     ELSE [s EXCEPT !.captainPlan.pendingPicks = Append(pending, id)]

\* [...new Set(pending)]: first occurrences, in order
Unique(seq) ==
  SelectSeq([i \in DOMAIN seq |-> IF \E j \in 1..(i - 1) : seq[j] = seq[i] THEN 0 ELSE seq[i]],
            LAMBDA x : x # 0)

\* variant: the group pointer is left where it was
acceptPendingCaptainsSameGroup(s) ==
  LET targetCount == captainTargetCount(s)
      activeIdSet == Range(ActiveIdSeq(s.roster))
      uniquePending == Unique(SelectSeq(s.captainPlan.pendingPicks,
                                        LAMBDA id : id \in activeIdSet))
  IN IF totalActive(s) = 0 \/ targetCount = 0 \/ Len(uniquePending) # targetCount THEN s
     ELSE [s EXCEPT !.roster =
                      [i \in DOMAIN s.roster |->
                         IF s.roster[i].id \in Range(uniquePending)
                         THEN [s.roster[i] EXCEPT !.captains = s.roster[i].captains + 1]
                         ELSE s.roster[i]],
                    !.captainPlan.recentPicks = uniquePending,
                    !.captainPlan.pendingPicks = <<>>]

acceptPendingCaptains(s) ==
  LET groups == captainGroups(s)
      currentIndex == Min(s.captainPlan.nextGroupIndex, Len(groups) - 1)
      targetCount == captainTargetCount(s)
      activeIdSet == Range(ActiveIdSeq(s.roster))
      uniquePending == Unique(SelectSeq(s.captainPlan.pendingPicks,
                                        LAMBDA id : id \in activeIdSet))
  IN IF totalActive(s) = 0 \/ targetCount = 0 \/ Len(uniquePending) # targetCount THEN s
     ELSE [s EXCEPT !.roster =
                      [i \in DOMAIN s.roster |->
                         IF s.roster[i].id \in Range(uniquePending)
                         THEN [s.roster[i] EXCEPT !.captains = s.roster[i].captains + 1]
                         ELSE s.roster[i]],
                    !.captainPlan.recentPicks = uniquePending,
                    !.captainPlan.pendingPicks = <<>>,
                    !.captainPlan.nextGroupIndex =
                        Min(currentIndex + 1, Max(Len(groups) - 1, 0))]

\* the "Captain games remaining" field:
\* Math.max(1, Math.floor(+value || DEFAULT_CAPTAIN_GAMES))
setGamesRemaining(s, input) ==
  LET value == Max(1, IF input = 0 THEN DEFAULT_CAPTAIN_GAMES ELSE input)
      groups == calculateCaptainGroups(totalActive(s), value)
  IN [s EXCEPT !.captainPlan.gamesRemaining = value,
               !.captainPlan.nextGroupIndex =
                   Min(s.captainPlan.nextGroupIndex, Max(Len(groups) - 1, 0))]

(***************************************************************************)
(* src/unnamed/part_001: the variant with per-player role allow-lists and  *)
(* bench priorities.  Its no-repeat filter, balanced pool, roster update,  *)
(* recent-role update and undo arithmetic are the same text as in App.jsx  *)
(* and reuse the definitions above.                                        *)
(***************************************************************************)
Absent == [absent |-> TRUE]   \* a field the variant's state does not have

BENCH_PRIORITY_FIRST_OFFENSE == <<"Logan L", "Atticus", "Gunnar">>
MUST_PLAY_FIRST_DEFENSE == BENCH_PRIORITY_FIRST_OFFENSE
BENCH_NEVER_ALL == <<"CJ", "Niko", "Barrett">>
DEFAULT_BENCH_META == [firstOffenseHandled |-> FALSE, firstDefenseHandled |-> FALSE]

\* PLAYER_ROLE_RESTRICTIONS[name]: the allow-list of a restricted player for
\* the phase a role belongs to
RestrictedNames == {"Atticus"}
PLAYER_ROLE_RESTRICTIONS(name, role) ==
  IF role \in Range(OFFENSE_ROLES)
  THEN {"off_te_left", "off_te_right"}
  ELSE {"def_de_left", "def_de_right", "def_dt"}

\* every queue buildQueueFromActive can return
buildQueueFromActive(players, previousQueue) ==
  LET activeIds == ActiveIdSeq(players)
      preserved == SelectSeq(previousQueue, LAMBDA id : id \in Range(activeIds))
      missing == SelectSeq(activeIds, LAMBDA id : id \notin Range(preserved))
  IN IF Len(activeIds) = 0 THEN {<<>>}
     ELSE IF Len(preserved) = Len(activeIds) /\ Len(preserved) > 0 THEN {preserved}
     ELSE {preserved \o sh : sh \in rngShuffle(missing)}

\* the names' active players, in the order of the names, that are in the queue
\* (findActivePlayerIdByName mapped over a name list, nulls filtered out)
activeIdsByName(players, names, workingQueue) ==
  LET found(name) == SelectSeq(players,
                               LAMBDA p : p.active /\ toLowerCase(p.name) = toLowerCase(name))
      hit == SelectSeq(names, LAMBDA name : /\ Len(found(name)) > 0
                                            /\ found(name)[1].id \in Range(workingQueue))
  IN [i \in DOMAIN hit |-> found(hit[i])[1].id]

\* variant: the priority players take the bench in the order the queue has them
firstOffenseQueueInQueueOrder(s, workingQueue) ==
  LET priorityIds == activeIdsByName(s.roster, BENCH_PRIORITY_FIRST_OFFENSE, workingQueue)
      seats == Min(sitCount(s), Len(priorityIds))
      idsToFront == Slice(SelectSeq(workingQueue, LAMBDA id : id \in Range(priorityIds)),
                          0, seats)
      rest == SelectSeq(workingQueue, LAMBDA id : id \notin Range(idsToFront))
  IN IF sitCount(s) > 0 /\ Len(priorityIds) > 0 THEN idsToFront \o rest ELSE workingQueue

\* first Offense series of a game: the bench is filled from the priority list
firstOffenseQueue(s, workingQueue) ==
  LET priorityIds == activeIdsByName(s.roster, BENCH_PRIORITY_FIRST_OFFENSE, workingQueue)
      seats == Min(sitCount(s), Len(priorityIds))
      idsToFront == Slice(priorityIds, 0, seats)
      rest == SelectSeq(workingQueue, LAMBDA id : id \notin Range(idsToFront))
  IN IF sitCount(s) > 0 /\ Len(priorityIds) > 0 THEN idsToFront \o rest ELSE workingQueue

\* first Defense series of a game: the must-play players are moved off the bench
firstDefenseQueue(s, workingQueue) ==
  LET requiredIds == activeIdsByName(s.roster, MUST_PLAY_FIRST_DEFENSE, workingQueue)
      requiredOrdered == SelectSeq(workingQueue, LAMBDA id : id \in Range(requiredIds))
      filteredQueue == SelectSeq(workingQueue, LAMBDA id : id \notin Range(requiredIds))
      benchSlice == Slice(filteredQueue, 0, sitCount(s))
      playSlice == SliceFrom(filteredQueue, sitCount(s))
  IN IF Len(requiredIds) > 0 THEN benchSlice \o requiredOrdered \o playSlice
     ELSE workingQueue

\* variant: the bench is taken as the queue has it
neverAllQueueKept(s, workingQueue) == workingQueue

\* CJ, Niko and Barrett never all sit: one of them is swapped with a player
neverAllQueue(s, workingQueue) ==
  LET sitIds == Slice(workingQueue, 0, sitCount(s))
      playIds == Slice(workingQueue, sitCount(s), sitCount(s) + s.settings.teamSize)
      avoidIds == activeIdsByName(s.roster, BENCH_NEVER_ALL, workingQueue)
      candidates == SelectSeq(playIds, LAMBDA id : id \notin Range(avoidIds))
      inBench == SelectSeq(avoidIds, LAMBDA id : id \in Range(sitIds))
      benchIndex == CHOOSE i \in DOMAIN workingQueue : workingQueue[i] = inBench[1]
      playIndex == CHOOSE i \in DOMAIN workingQueue : workingQueue[i] = candidates[1]
  IN IF /\ sitCount(s) > 0
        /\ Len(avoidIds) = Len(BENCH_NEVER_ALL)
        /\ \A id \in Range(avoidIds) : id \in Range(sitIds)
        /\ Len(candidates) > 0
     THEN [workingQueue EXCEPT ![benchIndex] = workingQueue[playIndex],
                               ![playIndex] = workingQueue[benchIndex]]
     ELSE workingQueue

\* the queue a series works on, after the three bench rules
seriesWorkingQueue(s, which) ==
  LET q1 == IF which = "Offense" /\ ~s.benchMeta.firstOffenseHandled
            THEN firstOffenseQueue(s, s.queue) ELSE s.queue
      q2 == IF which = "Defense" /\ ~s.benchMeta.firstDefenseHandled
            THEN firstDefenseQueue(s, q1) ELSE q1
  IN neverAllQueue(s, q2)

seriesBenchMeta(s, which) ==
  IF which = "Offense" /\ ~s.benchMeta.firstOffenseHandled
  THEN [s.benchMeta EXCEPT !.firstOffenseHandled = TRUE]
  ELSE IF which = "Defense" /\ ~s.benchMeta.firstDefenseHandled
  THEN [s.benchMeta EXCEPT !.firstDefenseHandled = TRUE]
  ELSE s.benchMeta

\* candidates not yet assigned that pass the ability check and the allow-list
allowedForRoleB(s, role, candidates, alreadyAssigned) ==
  SelectSeq(candidates,
            LAMBDA id : /\ id \notin alreadyAssigned
                        /\ \E p \in Range(s.roster) : p.id = id
                        /\ ROLE_ABILITY_CHECK(role, byId(s, id))
                        /\ \/ byId(s, id).name \notin RestrictedNames
                           \/ role \in PLAYER_ROLE_RESTRICTIONS(byId(s, id).name, role))

eligiblePoolForRoleB(s, role, candidates, alreadyAssigned, currentSeries) ==
  LET allowed == allowedForRoleB(s, role, candidates, alreadyAssigned)
  IN IF Len(allowed) = 0 THEN <<>>
     ELSE balancedPool(s, role, noRepeatPool(s, role, allowed, currentSeries))

pickForRoleB(s, role, candidates, alreadyAssigned, currentSeries) ==
  Range(eligiblePoolForRoleB(s, role, candidates, alreadyAssigned, currentSeries))

RECURSIVE AssignRolesB(_, _, _, _, _, _)
AssignRolesB(s, roles, i, playIds, mapping, currentSeries) ==
  IF i > Len(roles) THEN {mapping}
  ELSE LET picks == pickForRoleB(s, roles[i], playIds, Range(mapping), currentSeries)
       IN IF picks = {}
          THEN AssignRolesB(s, roles, i + 1, playIds, mapping, currentSeries)
          ELSE UNION {AssignRolesB(s, roles, i + 1, playIds,
                                   mapping @@ (roles[i] :> id), currentSeries)
                        : id \in picks}

\* off_qb and off_c are resolved first
prioritizedRoles ==
  SelectSeq(<<"off_qb", "off_c">>, LAMBDA role : role \in Range(OFFENSE_ROLES))
    \o SelectSeq(OFFENSE_ROLES, LAMBDA role : role # "off_qb" /\ role # "off_c")
PhaseRolesB(which) == IF which = "Offense" THEN prioritizedRoles ELSE DEFENSE_ROLES

applySeriesB(s, which, mapping) ==
  LET workingQueue == seriesWorkingQueue(s, which)
      t == applySeriesIn([s EXCEPT !.queue = workingQueue], which,
                         PhaseRolesB(which), mapping)
      entry == t.history[Len(t.history)]
  IN [t EXCEPT !.history = Append(s.history,
                                  [phase |-> entry.phase, series |-> entry.series,
                                   sitIds |-> entry.sitIds, playIds |-> entry.playIds,
                                   offense |-> entry.offense, defense |-> entry.defense,
                                   recentBefore |-> entry.recentBefore,
                                   benchMetaBefore |-> s.benchMeta]),
               !.benchMeta = seriesBenchMeta(s, which)]

nextSeriesB(s, which) ==
  IF seriesRejected(s) THEN {s}
  ELSE LET workingQueue == seriesWorkingQueue(s, which)
           playIds == Slice(workingQueue, sitCount(s), sitCount(s) + s.settings.teamSize)
       IN {applySeriesB(s, which, m) :
             m \in AssignRolesB(s, PhaseRolesB(which), 1, playIds, EmptyMap, s.series + 1)}

undoB(s) ==
  IF Len(s.history) = 0 THEN s
  ELSE [undoIn(s, PhaseRolesB(s.history[Len(s.history)].phase))
          EXCEPT !.benchMeta = s.history[Len(s.history)].benchMetaBefore]

\* every state toggleActive can leave (the queue tail is shuffled)
toggleActiveB(s, id) ==
  LET newRoster == [i \in DOMAIN s.roster |->
                      IF s.roster[i].id = id
                      THEN [s.roster[i] EXCEPT !.active = ~s.roster[i].active]
                      ELSE s.roster[i]]
  IN {[s EXCEPT !.roster = newRoster, !.queue = q] :
        q \in buildQueueFromActive(newRoster, s.queue)}

\* the queue effect of part_001 shuffles the players it appends
queueEffectB(s) ==
  LET activeIds == ActiveIdSeq(s.roster)
      filtered == SelectSeq(s.queue, LAMBDA id : id \in Range(activeIds))
      missing == SelectSeq(activeIds, LAMBDA id : id \notin Range(filtered))
  IN IF Len(filtered) # Len(s.queue) \/ Len(filtered) # Len(activeIds)
     THEN {[s EXCEPT !.queue = filtered \o sh] : sh \in rngShuffle(missing)}
     ELSE {s}

createEmptyTalliesB(name, id) ==
  [name |-> name, active |-> TRUE, sits |-> 0,
   pos |-> [r \in AllRoles |-> 0], id |-> id, canQB |-> TRUE, canCenter |-> TRUE]

\* every state loadInitialState of part_001 can return for a roster of the
\* first n default names
loadInitialStateB(n, teamSize) ==
  LET baseRoster == SortByName([i \in 1..n |-> createEmptyTalliesB(DEFAULT_ROSTER[i], i)])
  IN {[roster |-> baseRoster,
       queue |-> q,
       series |-> 0,
       history |-> <<>>,
       settings |-> [teamSize |-> teamSize, noRepeatWindow |-> 1],
       recentRoleByPlayer |-> EmptyMap,
       captainPlan |-> Absent,
       gameNumber |-> 1,
       seasonHistory |-> <<>>,
       benchMeta |-> DEFAULT_BENCH_META,
       captainQueue |-> Absent, captainIndex |-> Absent, captainIOUs |-> Absent] : q \in buildQueueFromActive(baseRoster, <<>>)}

\* loadInitialState on a stored roster of the named players with no stored
\* queue (or with stored players of the same names): every queue it can build
loadStoredStateB(names, teamSize) ==
  LET idOf(name) == CHOOSE i \in DOMAIN DEFAULT_ROSTER : DEFAULT_ROSTER[i] = name
      storedRoster ==
        SortByName([i \in DOMAIN names |-> createEmptyTalliesB(names[i], idOf(names[i]))])
  IN {[roster |-> storedRoster,
       queue |-> q,
       series |-> 0,
       history |-> <<>>,
       settings |-> [teamSize |-> teamSize, noRepeatWindow |-> 1],
       recentRoleByPlayer |-> EmptyMap,
       captainPlan |-> Absent,
       gameNumber |-> 1,
       seasonHistory |-> <<>>,
       benchMeta |-> DEFAULT_BENCH_META,
       captainQueue |-> Absent, captainIndex |-> Absent, captainIOUs |-> Absent] :
        q \in buildQueueFromActive(storedRoster, <<>>)}

\* every state startNewGame of part_001 can leave: the queue is drawn afresh
\* and the bench flags are cleared
startNewGameB(s) ==
  LET base == [i \in DOMAIN s.roster |->
                 [ZeroPositions(s.roster[i]) EXCEPT !.sits = 0]]
  IN {[s EXCEPT !.roster = base,
                !.queue = q,
                !.series = 0,
                !.history = <<>>,
                !.recentRoleByPlayer = EmptyMap,
                !.gameNumber = s.gameNumber + 1,
                !.seasonHistory = Append(s.seasonHistory, gameSummary(s)),
                !.benchMeta = DEFAULT_BENCH_META] :
        q \in buildQueueFromActive(base, <<>>)}

(***************************************************************************)
(* src/unnamed/part_000 (v6): captains by alphabetical queue with IOUs.    *)
(***************************************************************************)
OFFENSE_ROLES_A == <<"QB", "RB1", "RB2", "C", "WR", "TE1", "TE2">>
DEFENSE_ROLES_A == <<"DT", "DE1", "DE2", "CB1", "CB2", "Spy", "Blitzer">>

createEmptyTalliesA(name, id) ==
  [name |-> name, active |-> TRUE, sits |-> 0, captains |-> 0,
   pos |-> [r \in Range(OFFENSE_ROLES_A) \cup Range(DEFENSE_ROLES_A) |-> 0], id |-> id]

seedCaptains == {"Niko", "Sully", "CJ", "Elijah", "Jeremiah"}

\* buildInitialRoster over the first n default names
buildInitialRoster(n) ==
  LET sorted == SortByName([i \in 1..n |-> createEmptyTalliesA(DEFAULT_ROSTER[i], i)])
  IN [i \in DOMAIN sorted |->
        [sorted[i] EXCEPT !.captains = IF sorted[i].name \in seedCaptains THEN 1 ELSE 0]]

loadInitialStateA(n, teamSize) ==
  LET baseRoster == buildInitialRoster(n)
  IN [roster |-> baseRoster,
      queue |-> [i \in DOMAIN baseRoster |-> baseRoster[i].id],
      series |-> 0,
      history |-> <<>>,
      settings |-> [teamSize |-> teamSize, noRepeatWindow |-> 1],
      recentRoleByPlayer |-> EmptyMap,
      captainPlan |-> [seasonTargetTotal |-> Len(baseRoster) * 2, recentPicks |-> <<>>],
      gameNumber |-> 1,
      seasonHistory |-> <<>>,
      benchMeta |-> Absent,
      captainQueue |-> [i \in DOMAIN baseRoster |-> baseRoster[i].id],
      captainIndex |-> 0,
      captainIOUs |-> <<>>]

\* Array.from(set) after set.delete(id) or set.add(id)
toggleCaptainIOU(s, id) ==
  LET set == Unique(s.captainIOUs)
  IN [s EXCEPT !.captainIOUs = IF id \in Range(set)
                               THEN SelectSeq(set, LAMBDA x : x # id)
                               ELSE Append(set, id)]

\* variant: nobody is served from the backlog
serveIOUsNone(s, targetCount, k, picks) == picks

\* Step 1 of pickCaptainsAlphabetical: the for loop over captainQueue
RECURSIVE serveIOUs(_, _, _, _)
serveIOUs(s, targetCount, k, picks) ==
  IF k > Len(s.captainQueue) \/ Len(picks) >= targetCount THEN picks
  ELSE LET id == s.captainQueue[k]
       IN IF /\ id \in Range(ActiveIdSeq(s.roster))
             /\ id \in Range(s.captainIOUs)
             /\ id \notin Range(picks)
          THEN serveIOUs(s, targetCount, k + 1, Append(picks, id))
          ELSE serveIOUs(s, targetCount, k + 1, picks)

\* variant: the fill does not look at the picks made so far
RECURSIVE fillFromPointerRepeating(_, _, _, _, _)
fillFromPointerRepeating(s, targetCount, picks, idx, safety) ==
  IF ~(Len(picks) < targetCount /\ safety < Len(s.captainQueue) * 2)
  THEN [picks |-> picks, idx |-> idx, safety |-> safety]
  ELSE LET id == s.captainQueue[(idx % Len(s.captainQueue)) + 1]
       IN fillFromPointerRepeating(s, targetCount,
                                   IF id \in Range(ActiveIdSeq(s.roster))
                                   THEN Append(picks, id) ELSE picks,
                                   idx + 1, safety + 1)

\* Step 2: the while loop; returns the picks, idx and safety it ends with
RECURSIVE fillFromPointer(_, _, _, _, _)
fillFromPointer(s, targetCount, picks, idx, safety) ==
  IF ~(Len(picks) < targetCount /\ safety < Len(s.captainQueue) * 2)
  THEN [picks |-> picks, idx |-> idx, safety |-> safety]
  ELSE LET id == s.captainQueue[(idx % Len(s.captainQueue)) + 1]
       IN fillFromPointer(s, targetCount,
                          IF id \in Range(ActiveIdSeq(s.roster)) /\ id \notin Range(picks)
                          THEN Append(picks, id) ELSE picks,
                          idx + 1, safety + 1)

pickCaptainsAlphabetical(s, targetCount) ==
  LET served == serveIOUs(s, targetCount, 1, <<>>)
      remainingIOUs == SelectSeq(s.captainIOUs, LAMBDA id : id \notin Range(served))
      filled == fillFromPointer(s, targetCount, served, s.captainIndex, 0)
      picks == filled.picks
  IN IF picks = <<>> THEN s
     ELSE [s EXCEPT !.roster =
                      [i \in DOMAIN s.roster |->
                         IF s.roster[i].id \in Range(picks)
                         THEN [s.roster[i] EXCEPT !.captains = s.roster[i].captains + 1]
                         ELSE s.roster[i]],
                    !.captainPlan.recentPicks = picks,
                    !.captainIndex = filled.idx % Max(Len(s.captainQueue), 1),
                    !.captainIOUs = remainingIOUs]

toggleActiveA(s, id) ==
  LET newRoster == [i \in DOMAIN s.roster |->
                      IF s.roster[i].id = id
                      THEN [s.roster[i] EXCEPT !.active = ~s.roster[i].active]
                      ELSE s.roster[i]]
  IN [s EXCEPT !.roster = newRoster, !.queue = ActiveIdSeq(newRoster)]

removePlayerA(s, id) ==
  LET newRoster == SelectSeq(s.roster, LAMBDA p : p.id # id)
      newCaptainQueue == [i \in DOMAIN newRoster |-> newRoster[i].id]
  IN [s EXCEPT !.roster = newRoster,
               !.queue = SelectSeq(s.queue, LAMBDA q : q # id),
               !.captainPlan.seasonTargetTotal = Len(newRoster) * 2,
               !.recentRoleByPlayer =
                   [pid \in DOMAIN s.recentRoleByPlayer \ {id} |-> s.recentRoleByPlayer[pid]],
               !.captainQueue = newCaptainQueue,
               !.captainIndex = s.captainIndex % Max(1, Len(newCaptainQueue)),
               !.captainIOUs = SelectSeq(s.captainIOUs, LAMBDA pid : pid # id)]

(***************************************************************************)
(* Export and import of the state as a JSON document.  A document is a     *)
(* tree of tagged values: null, number, string, boolean, array (a sequence *)
(* of values) and object (a sequence of <<key, value>> members in the      *)
(* order the keys are written).  A player id stands for its UUID string.   *)
(***************************************************************************)
\* LEGACY_ROLE_MAP: the role keys of the earlier versions and their successors
LEGACY_ROLE_MAP ==
  [QB |-> "off_qb", RB1 |-> "off_rb_left", RB2 |-> "off_rb_right", C |-> "off_c",
   WR |-> "off_wr", TE1 |-> "off_te_left", TE2 |-> "off_te_right",
   DT |-> "def_dt", DE1 |-> "def_de_left", DE2 |-> "def_de_right",
   CB1 |-> "def_cb_left", CB2 |-> "def_cb_right", Spy |-> "def_spy",
   Blitzer |-> "def_blitzer"]
LegacyRoles == OFFENSE_ROLES_A \o DEFENSE_ROLES_A   \* its keys, in order

Undefined == [undefined |-> TRUE]    \* a member the document does not have
NoReplacer == [all |-> TRUE, keys |-> {}]
ListedKeys(keys) == [all |-> FALSE, keys |-> keys]

\* JSON.stringify(state, replacer, 2): an array replacer keeps, at every
\* depth, only the members whose key it lists
jsonStringify(s, replacer) ==
  LET Num(n) == [t |-> "number", v |-> n]
      Str(x) == [t |-> "string", v |-> x]
      Bool(b) == [t |-> "boolean", v |-> b]
      Arr(seq) == [t |-> "array", v |-> seq]
      Obj(members) ==
        [t |-> "object",
         v |-> IF replacer.all THEN members
               ELSE SelectSeq(members, LAMBDA m : m[1] \in replacer.keys)]
      \* an object keyed by player ids: no id is a listed key
      IdSeq(ids) ==
        CHOOSE q \in [1..Cardinality(ids) -> ids] :
          \A i, j \in 1..Cardinality(ids) : i < j => q[i] < q[j]
      IdObj(f, Val(_)) ==
        [t |-> "object",
         v |-> IF replacer.all
               THEN [i \in 1..Cardinality(DOMAIN f) |->
                       <<IdSeq(DOMAIN f)[i], Val(f[IdSeq(DOMAIN f)[i]])>>]
               ELSE <<>>]
      Ids(seq) == Arr([i \in DOMAIN seq |-> Str(seq[i])])
      Keys(f) ==
        SelectSeq(OFFENSE_ROLES \o DEFENSE_ROLES \o LegacyRoles,
                  LAMBDA r : r \in DOMAIN f)
      Pos(pos) ==
        Obj([i \in DOMAIN Keys(pos) |-> <<Keys(pos)[i], Num(pos[Keys(pos)[i]])>>])
      Player(p) ==
        Obj(<< <<"name", Str(p.name)>>, <<"active", Bool(p.active)>>,
               <<"sits", Num(p.sits)>>, <<"captains", Num(p.captains)>>,
               <<"pos", Pos(p.pos)>>, <<"id", Str(p.id)>>,
               <<"canQB", Bool(p.canQB)>>, <<"canCenter", Bool(p.canCenter)>> >>)
      Recent(f) ==
        IdObj(f, LAMBDA r : Obj(<< <<"role", Str(r.role)>>,
                                   <<"series", Num(r.series)>> >>))
      Mapping(m) ==
        IF m.null THEN [t |-> "null"]
        ELSE Obj([i \in DOMAIN Keys(m.map) |->
                    <<Keys(m.map)[i], Str(m.map[Keys(m.map)[i]])>>])
      Entry(e) ==
        Obj(<< <<"phase", Str(e.phase)>>, <<"series", Num(e.series)>>,
               <<"sitIds", Ids(e.sitIds)>>, <<"playIds", Ids(e.playIds)>>,
               <<"offense", Mapping(e.offense)>>,
               <<"defense", Mapping(e.defense)>>,
               <<"recentBefore", Recent(e.recentBefore)>> >>)
      Settings(x) ==
        Obj(<< <<"teamSize", Num(x.teamSize)>>,
               <<"noRepeatWindow", Num(x.noRepeatWindow)>> >>)
      Plan(c) ==
        Obj(<< <<"seasonTargetTotal", Num(c.seasonTargetTotal)>>,
               <<"recentPicks", Ids(c.recentPicks)>>,
               <<"pendingPicks", Ids(c.pendingPicks)>>,
               <<"gamesRemaining", Num(c.gamesRemaining)>>,
               <<"nextGroupIndex", Num(c.nextGroupIndex)>> >>)
      Summary(g) ==
        Obj(<< <<"game", Num(g.game)>>,
               <<"attendance", Arr([i \in DOMAIN g.attendance |-> Str(g.attendance[i])])>>,
               <<"seriesPlayed", Num(g.seriesPlayed)>> >>)
  IN Obj(<< <<"roster", Arr([i \in DOMAIN s.roster |-> Player(s.roster[i])])>>,
            <<"queue", Ids(s.queue)>>,
            <<"series", Num(s.series)>>,
            <<"history", Arr([i \in DOMAIN s.history |-> Entry(s.history[i])])>>,
            <<"settings", Settings(s.settings)>>,
            <<"recentRoleByPlayer", Recent(s.recentRoleByPlayer)>>,
            <<"captainPlan", Plan(s.captainPlan)>>,
            <<"gameNumber", Num(s.gameNumber)>>,
            <<"seasonHistory",
              Arr([i \in DOMAIN s.seasonHistory |-> Summary(s.seasonHistory[i])])>> >>)

\* JSON.parse: the value a document denotes.  The state it yields has the
\* members the document has; inside a player, an entry or the plan a member
\* the document lacks reads as undefined
jsonParse(doc) ==
  LET Has(o, key) == \E i \in DOMAIN o.v : o.v[i][1] = key
      Member(o, key) ==
        IF Has(o, key) THEN o.v[CHOOSE i \in DOMAIN o.v : o.v[i][1] = key][2]
        ELSE Undefined
      Get(o, key, Val(_)) ==
        IF Has(o, key) THEN Val(Member(o, key)) ELSE Undefined
      Prim(j) == j.v
      List(j, Val(_)) == [i \in DOMAIN j.v |-> Val(j.v[i])]
      Ids(j) == List(j, Prim)
      IdObj(j, Val(_)) ==
        [pid \in {j.v[i][1] : i \in DOMAIN j.v} |-> Val(Member(j, pid))]
      Pos(j) == [r \in {j.v[i][1] : i \in DOMAIN j.v} |-> Prim(Member(j, r))]
      Player(j) ==
        [name |-> Get(j, "name", Prim), active |-> Get(j, "active", Prim),
         sits |-> Get(j, "sits", Prim), captains |-> Get(j, "captains", Prim),
         pos |-> Get(j, "pos", Pos), id |-> Get(j, "id", Prim),
         canQB |-> Get(j, "canQB", Prim), canCenter |-> Get(j, "canCenter", Prim)]
      RecentOf(j) == [role |-> Get(j, "role", Prim), series |-> Get(j, "series", Prim)]
      Recent(j) == IdObj(j, RecentOf)
      Mapping(j) ==
        IF j.t = "null" THEN NullMapping
        ELSE SomeMapping([r \in {j.v[i][1] : i \in DOMAIN j.v} |-> Prim(Member(j, r))])
      Entry(j) ==
        [phase |-> Get(j, "phase", Prim), series |-> Get(j, "series", Prim),
         sitIds |-> Get(j, "sitIds", Ids), playIds |-> Get(j, "playIds", Ids),
         offense |-> Get(j, "offense", Mapping),
         defense |-> Get(j, "defense", Mapping),
         recentBefore |-> Get(j, "recentBefore", Recent)]
      Settings(j) ==
        [teamSize |-> Get(j, "teamSize", Prim),
         noRepeatWindow |-> Get(j, "noRepeatWindow", Prim)]
      Plan(j) ==
        [seasonTargetTotal |-> Get(j, "seasonTargetTotal", Prim),
         recentPicks |-> Get(j, "recentPicks", Ids),
         pendingPicks |-> Get(j, "pendingPicks", Ids),
         gamesRemaining |-> Get(j, "gamesRemaining", Prim),
         nextGroupIndex |-> Get(j, "nextGroupIndex", Prim)]
      Summary(j) ==
        [game |-> Get(j, "game", Prim), attendance |-> Get(j, "attendance", Ids),
         seriesPlayed |-> Get(j, "seriesPlayed", Prim)]
      Players(j) == List(j, Player)
      Entries(j) == List(j, Entry)
      Summaries(j) == List(j, Summary)
      Field(key) ==
        CASE key = "roster" -> Players(Member(doc, key))
          [] key = "queue" -> Ids(Member(doc, key))
          [] key = "history" -> Entries(Member(doc, key))
          [] key = "settings" -> Settings(Member(doc, key))
          [] key = "recentRoleByPlayer" -> Recent(Member(doc, key))
          [] key = "captainPlan" -> Plan(Member(doc, key))
          [] key = "seasonHistory" -> Summaries(Member(doc, key))
          [] OTHER -> Prim(Member(doc, key))
  IN [key \in {doc.v[i][1] : i \in DOMAIN doc.v} |-> Field(key)]
       @@ [benchMeta |-> Absent,
           captainQueue |-> Absent, captainIndex |-> Absent, captainIOUs |-> Absent]

\* variant: the document is written with a list of keys that leaves out the
\* snapshot of the recent-role memory
exportStateListedKeys(s) ==
  jsonStringify(s, ListedKeys(
    {"roster", "queue", "series", "history", "settings", "recentRoleByPlayer",
     "captainPlan", "gameNumber", "seasonHistory",
     "name", "active", "sits", "captains", "pos", "id", "canQB", "canCenter",
     "phase", "sitIds", "playIds", "offense", "defense",
     "teamSize", "noRepeatWindow", "seasonTargetTotal", "recentPicks",
     "pendingPicks", "gamesRemaining", "nextGroupIndex",
     "game", "attendance", "seriesPlayed", "role"} \cup AllRoles))

\* exportState: the file that is downloaded
exportState(s) == jsonStringify(s, NoReplacer)

\* importState: the parsed file replaces the state
importState(s, doc) == jsonParse(doc)

\* the render after setState reads roster, queue, history and settings; with
\* one of them missing it throws and the component is unmounted
renders(t) == {"roster", "queue", "history", "settings"} \subseteq DOMAIN t

\* Files offered to the import dialog: the export of the state, and that export
\* with a count missing, with the role keys of the earlier version, with an
\* id twice in the queue, with the id of an absent player and an unknown id in
\* the queue, and with a required member missing
WithoutKey(f, key) == [x \in DOMAIN f \ {key} |-> f[x]]
WithLegacyKeys(f) ==
  LET legacyOf(r) == IF r \in AllRoles
                     THEN CHOOSE k \in DOMAIN LEGACY_ROLE_MAP : LEGACY_ROLE_MAP[k] = r
                     ELSE r
      current(k) == IF k \in DOMAIN LEGACY_ROLE_MAP /\ LEGACY_ROLE_MAP[k] \in DOMAIN f
                    THEN LEGACY_ROLE_MAP[k] ELSE k
  IN [k \in {legacyOf(r) : r \in DOMAIN f} |-> f[current(k)]]
WithoutMember(doc, key) ==
  [doc EXCEPT !.v = SelectSeq(doc.v, LAMBDA m : m[1] # key)]
Snapshots(s, unknownId) ==
  LET missingCount ==
        [s EXCEPT !.roster[1].pos = WithoutKey(s.roster[1].pos, "off_qb")]
      legacy ==
        [s EXCEPT !.roster = [i \in DOMAIN s.roster |->
                                [s.roster[i] EXCEPT !.pos = WithLegacyKeys(s.roster[i].pos)]],
                  !.history = [i \in DOMAIN s.history |->
                                 [s.history[i] EXCEPT
                                    !.offense = IF @.null THEN @
                                                ELSE SomeMapping(WithLegacyKeys(@.map)),
                                    !.defense = IF @.null THEN @
                                                ELSE SomeMapping(WithLegacyKeys(@.map))]]]
      twice == [s EXCEPT !.queue = IF Len(@) = Cardinality(Range(@)) /\ @ # <<>>
                                   THEN Append(@, @[1]) ELSE @]
      stale == [s EXCEPT !.queue = [i \in DOMAIN s.roster |-> s.roster[i].id]
                                     \o <<unknownId>>]
      whole == exportState(s)
  IN {whole} \cup {exportState(u) : u \in {missingCount, legacy, twice, stale}}
       \cup {WithoutMember(whole, key) :
                key \in {"roster", "queue", "history", "settings"}}

(***************************************************************************)
(* The state as one record, and its construction.                          *)
(***************************************************************************)
S ==
  [roster |-> roster, queue |-> queue, series |-> series, history |-> history,
   settings |-> settings, recentRoleByPlayer |-> recentRoleByPlayer,
   captainPlan |-> captainPlan, gameNumber |-> gameNumber,
   seasonHistory |-> seasonHistory, benchMeta |-> benchMeta,
   captainQueue |-> captainQueue, captainIndex |-> captainIndex,
   captainIOUs |-> captainIOUs]

SetState(t) ==
  /\ roster' = t.roster
  /\ queue' = t.queue
  /\ series' = t.series
  /\ history' = t.history
  /\ settings' = t.settings
  /\ recentRoleByPlayer' = t.recentRoleByPlayer
  /\ captainPlan' = t.captainPlan
  /\ gameNumber' = t.gameNumber
  /\ seasonHistory' = t.seasonHistory
  /\ benchMeta' = t.benchMeta
  /\ captainQueue' = t.captainQueue
  /\ captainIndex' = t.captainIndex
  /\ captainIOUs' = t.captainIOUs

StateIs(t) ==
  /\ roster = t.roster
  /\ queue = t.queue
  /\ series = t.series
  /\ history = t.history
  /\ settings = t.settings
  /\ recentRoleByPlayer = t.recentRoleByPlayer
  /\ captainPlan = t.captainPlan
  /\ gameNumber = t.gameNumber
  /\ seasonHistory = t.seasonHistory
  /\ benchMeta = t.benchMeta
  /\ captainQueue = t.captainQueue
  /\ captainIndex = t.captainIndex
  /\ captainIOUs = t.captainIOUs

\* loadInitialState with a roster of the first n default names (the default
\* roster, or the stored one after players were removed)
loadInitialState(n, teamSize) ==
  LET baseRoster == SortByName([i \in 1..n |-> createEmptyTallies(DEFAULT_ROSTER[i], i)])
  IN [roster |-> baseRoster,
      queue |-> [i \in DOMAIN baseRoster |-> baseRoster[i].id],
      series |-> 0,
      history |-> <<>>,
      settings |-> [teamSize |-> teamSize, noRepeatWindow |-> 1],
      recentRoleByPlayer |-> EmptyMap,
      captainPlan |-> [seasonTargetTotal |-> Len(baseRoster) * 2,
                       recentPicks |-> <<>>, pendingPicks |-> <<>>,
                       gamesRemaining |-> DEFAULT_CAPTAIN_GAMES,
                       nextGroupIndex |-> 0],
      gameNumber |-> 1,
      seasonHistory |-> <<>>,
      benchMeta |-> Absent,
      captainQueue |-> Absent, captainIndex |-> Absent, captainIOUs |-> Absent]

Init ==
  /\ StateIs(loadInitialState(InitPlayers, DEFAULT_TEAM_SIZE))
  /\ nextId = InitPlayers + 1
  /\ variant = "App.jsx"

(***************************************************************************)
(* Actions: a handler, then the effects that run after it.                 *)
(***************************************************************************)
RosterIds == {p.id : p \in Range(roster)}

AfterEffects(t) ==
  CASE variant = "App.jsx" -> {Effects(t)}
    [] variant = "part_000" -> {queueEffect(t)}
    [] OTHER -> queueEffectB(t)
Commit(t) == \E u \in AfterEffects(t) : SetState(u)

\* the bounds on the counters a series increases
SeriesWithinBounds ==
  /\ Len(history) < MaxSeries
  /\ \A p \in Range(roster) : p.sits < MaxSits

NextSeriesOffense ==
  /\ variant = "App.jsx"
  /\ SeriesWithinBounds
  /\ \E t \in nextSeries(S, "Offense") : Commit(t)
  /\ UNCHANGED <<nextId, variant>>

NextSeriesDefense ==
  /\ variant = "App.jsx"
  /\ SeriesWithinBounds
  /\ \E t \in nextSeries(S, "Defense") : Commit(t)
  /\ UNCHANGED <<nextId, variant>>

Undo ==
  /\ variant = "App.jsx"
  /\ Commit(undo(S))
  /\ UNCHANGED <<nextId, variant>>

ResetPositionsOnly ==
  /\ variant = "App.jsx"
  /\ Commit(resetPositionsOnly(S))
  /\ UNCHANGED <<nextId, variant>>

StartNewGame ==
  /\ variant = "App.jsx"
  /\ gameNumber < MaxGames
  /\ Commit(startNewGame(S))
  /\ UNCHANGED <<nextId, variant>>

\* the file exportState has just written is chosen in the import dialog
ImportState ==
  /\ variant = "App.jsx"
  /\ Commit(importState(S, exportState(S)))
  /\ UNCHANGED <<nextId, variant>>

\* a file is chosen in the import dialog; a state that cannot be rendered
\* stays adopted while the component is gone
ImportSnapshot ==
  /\ variant = "App.jsx"
  /\ \E doc \in Snapshots(S, nextId) :
       LET t == importState(S, doc)
       IN IF renders(t)
          THEN Commit(t) /\ variant' = variant
          ELSE /\ SetState([key \in DOMAIN S |->
                              IF key \in DOMAIN t THEN t[key] ELSE Undefined])
               /\ variant' = "unmounted"
  /\ UNCHANGED nextId

AddPlayer ==
  \E name \in PromptNames :
    /\ variant = "App.jsx"
    /\ nextId <= MaxIds
    /\ Commit(addPlayer(S, name, nextId))
    /\ nextId' = IF name = "" \/ nameExists(S, name) THEN nextId ELSE nextId + 1
    /\ UNCHANGED variant

\* the attendance rows in use are those of the players with id <= MaxToggleId
RemovePlayer ==
  \E id \in RosterIds \cap (1..MaxToggleId) :
    /\ variant = "App.jsx"
    /\ Commit(removePlayer(S, id))
    /\ UNCHANGED <<nextId, variant>>

ToggleActive ==
  /\ variant = "App.jsx"
  /\ \E id \in RosterIds \cap (1..MaxToggleId) : Commit(toggleActive(S, id))
  /\ UNCHANGED <<nextId, variant>>

\* toggleAbilityFlag and the two settings fields are the same text in both files
ToggleAbilityFlag ==
  \E id \in RosterIds \cap (1..MaxToggleId), key \in {"canQB", "canCenter"} :
    /\ Commit(toggleAbilityFlag(S, id, key))
    /\ UNCHANGED <<nextId, variant>>

SetTeamSize ==
  \E value \in 0..MaxTeamSize :
    /\ Commit(setTeamSize(S, value))
    /\ UNCHANGED <<nextId, variant>>

ToggleNoRepeat ==
  /\ Commit(toggleNoRepeat(S))
  /\ UNCHANGED <<nextId, variant>>

PickNextCaptains ==
  /\ variant = "App.jsx"
  /\ \E t \in pickNextCaptains(S) : Commit(t)
  /\ UNCHANGED <<nextId, variant>>

ClearPendingCaptains ==
  /\ variant = "App.jsx"
  /\ Commit(clearPendingCaptains(S))
  /\ UNCHANGED <<nextId, variant>>

TogglePendingCaptain ==
  \E id \in RosterIds :
    /\ variant = "App.jsx"
    /\ Commit(togglePendingCaptain(S, id))
    /\ UNCHANGED <<nextId, variant>>

\* the bound on the counter acceptPendingCaptains increases
AcceptPendingCaptains ==
  /\ variant = "App.jsx"
  /\ \A p \in Range(roster) : p.captains < MaxCaptains
  /\ Commit(acceptPendingCaptains(S))
  /\ UNCHANGED <<nextId, variant>>

\* a whole round of groups can be accepted: the bound is on the picked players
AcceptPendingCaptainsRound ==
  /\ variant = "App.jsx"
  /\ \A p \in Range(roster) : p.captains < MaxCaptainRounds
  /\ Commit(acceptPendingCaptains(S))
  /\ UNCHANGED <<nextId, variant>>

SetGamesRemaining ==
  \E input \in 0..MaxGamesRemaining :
    /\ variant = "App.jsx"
    /\ Commit(setGamesRemaining(S, input))
    /\ UNCHANGED <<nextId, variant>>

\* every attendance row is in use
ToggleAttendance ==
  \E id \in RosterIds :
    /\ variant = "App.jsx"
    /\ Commit(toggleActive(S, id))
    /\ UNCHANGED <<nextId, variant>>

\* part_000 -------------------------------------------------------------
\* the button calls pickCaptainsAlphabetical(2); the other counts are the
\* parameter's other values
PickCaptainsAlphabetical ==
  \E targetCount \in 0..MaxTargetCount :
    /\ variant = "part_000"
    /\ \A p \in Range(roster) : p.captains < MaxCaptainRounds
    /\ Commit(pickCaptainsAlphabetical(S, targetCount))
    /\ UNCHANGED <<nextId, variant>>

ToggleCaptainIOU ==
  \E id \in RosterIds :
    /\ variant = "part_000"
    /\ Commit(toggleCaptainIOU(S, id))
    /\ UNCHANGED <<nextId, variant>>

ToggleActiveA ==
  \E id \in RosterIds :
    /\ variant = "part_000"
    /\ Commit(toggleActiveA(S, id))
    /\ UNCHANGED <<nextId, variant>>

RemovePlayerA ==
  \E id \in RosterIds \cap (1..MaxToggleId) :
    /\ variant = "part_000"
    /\ Commit(removePlayerA(S, id))
    /\ UNCHANGED <<nextId, variant>>

NextSeriesOffenseB ==
  /\ variant = "part_001"
  /\ SeriesWithinBounds
  /\ \E t \in nextSeriesB(S, "Offense") : Commit(t)
  /\ UNCHANGED <<nextId, variant>>

NextSeriesDefenseB ==
  /\ variant = "part_001"
  /\ SeriesWithinBounds
  /\ \E t \in nextSeriesB(S, "Defense") : Commit(t)
  /\ UNCHANGED <<nextId, variant>>

UndoB ==
  /\ variant = "part_001"
  /\ Commit(undoB(S))
  /\ UNCHANGED <<nextId, variant>>

ToggleActiveB ==
  \E id \in RosterIds \cap (1..MaxToggleId) :
    /\ variant = "part_001"
    /\ \E t \in toggleActiveB(S, id) : Commit(t)
    /\ UNCHANGED <<nextId, variant>>

StartNewGameB ==
  /\ variant = "part_001"
  /\ gameNumber < MaxGames
  /\ \E t \in startNewGameB(S) : Commit(t)
  /\ UNCHANGED <<nextId, variant>>

(***************************************************************************)
(* Spec: the series engine of App.jsx (series, undo, attendance, settings) *)
(* from the default state.                                                 *)
(***************************************************************************)
Next ==
  \/ NextSeriesOffense
  \/ NextSeriesDefense
  \/ Undo
  \/ ToggleActive
  \/ SetTeamSize
  \/ ToggleNoRepeat

Spec == Init /\ [][Next]_vars

(***************************************************************************)
(* SpecRoster: the roster operations of App.jsx around the series engine,  *)
(* from a stored state whose team size lets a series run.  The series are  *)
(* Offense series: a Defense series differs in its role list only.         *)
(***************************************************************************)
InitRoster ==
  /\ StateIs(loadInitialState(InitPlayers, MaxTeamSize))
  /\ nextId = InitPlayers + 1
  /\ variant = "App.jsx"

NextRoster ==
  \/ NextSeriesOffense
  \/ Undo
  \/ ResetPositionsOnly
  \/ StartNewGame
  \/ AddPlayer
  \/ RemovePlayer
  \/ ToggleActive

SpecRoster == InitRoster /\ [][NextRoster]_vars

(***************************************************************************)
(* SpecSeason: series, captain picks, the two resets and changes of the    *)
(* roster, so that captain counts, pending and accepted picks are not      *)
(* empty when a game is reset or a player leaves.                          *)
(***************************************************************************)
InitSeason ==
  /\ StateIs(loadInitialState(InitPlayers, MaxTeamSize))
  /\ nextId = InitPlayers + 1
  /\ variant = "App.jsx"

NextSeason ==
  \/ NextSeriesOffense
  \/ PickNextCaptains
  \/ ClearPendingCaptains
  \/ TogglePendingCaptain
  \/ AcceptPendingCaptains
  \/ ResetPositionsOnly
  \/ StartNewGame
  \/ RemovePlayer
  \/ ToggleActive
  \/ ImportState

SpecSeason == InitSeason /\ [][NextSeason]_vars

(***************************************************************************)
(* SpecImport: files are imported into the opening state and into the      *)
(* states after one series, between attendance changes and captain picks.  *)
(***************************************************************************)
InitImport ==
  /\ \E t \in {loadInitialState(InitPlayers, MaxTeamSize)}
               \cup {Effects(u) :
                       u \in nextSeries(loadInitialState(InitPlayers, MaxTeamSize),
                                        "Offense")} :
       StateIs(t)
  /\ nextId = InitPlayers + 1
  /\ variant = "App.jsx"

NextImport ==
  \/ ImportSnapshot
  \/ ToggleActive
  \/ PickNextCaptains
  \/ AcceptPendingCaptains

SpecImport == InitImport /\ [][NextImport]_vars

(***************************************************************************)
(* SpecPriority: the bench rules of part_001, from two stored rosters: one *)
(* with CJ, Niko and Barrett, a must-play player and a fifth player, and    *)
(* one with the three players of the priority list alone.                  *)
(***************************************************************************)
NeverAllRoster == <<"Barrett", "CJ", "Elijah", "Logan L", "Niko">>
PriorityRoster == <<"Atticus", "Gunnar", "Logan L">>

InitPriority ==
  /\ \E t \in loadStoredStateB(NeverAllRoster, MaxTeamSize)
               \cup loadStoredStateB(PriorityRoster, MaxTeamSize) : StateIs(t)
  /\ nextId = Len(DEFAULT_ROSTER) + 1
  /\ variant = "part_001"

NextPriority ==
  \/ NextSeriesOffenseB
  \/ NextSeriesDefenseB
  \/ UndoB
  \/ ToggleActiveB
  \/ StartNewGameB

SpecPriority == InitPriority /\ [][NextPriority]_vars

(***************************************************************************)
(* SpecCaptains: the captain plan alone.  Attendance and the number of     *)
(* games remaining vary, picks are proposed, edited, cleared and accepted  *)
(* until a player has been captain MaxCaptainRounds times.                 *)
(***************************************************************************)
InitCaptains ==
  /\ StateIs(loadInitialState(InitPlayers, MaxTeamSize))
  /\ nextId = InitPlayers + 1
  /\ variant = "App.jsx"

NextCaptains ==
  \/ PickNextCaptains
  \/ ClearPendingCaptains
  \/ TogglePendingCaptain
  \/ AcceptPendingCaptainsRound
  \/ SetGamesRemaining
  \/ ToggleAttendance

SpecCaptains == InitCaptains /\ [][NextCaptains]_vars

(***************************************************************************)
(* SpecAlphabetical: the captain queue of part_000.  Attendance, IOUs and  *)
(* the roster vary between picks.                                          *)
(***************************************************************************)
InitAlphabetical ==
  /\ StateIs(loadInitialStateA(InitPlayers, MaxTeamSize))
  /\ nextId = InitPlayers + 1
  /\ variant = "part_000"

NextAlphabetical ==
  \/ PickCaptainsAlphabetical
  \/ ToggleCaptainIOU
  \/ ToggleActiveA
  \/ RemovePlayerA

SpecAlphabetical == InitAlphabetical /\ [][NextAlphabetical]_vars

(***************************************************************************)
(* SpecFair: Offense series one deeper than in Spec, so that every player  *)
(* of a pool can already have played a role, from a stored state in which  *)
(* the whole roster plays.                                                 *)
(***************************************************************************)
InitFair ==
  /\ StateIs(loadInitialState(InitPlayers, InitPlayers))
  /\ nextId = InitPlayers + 1
  /\ variant = "App.jsx"

NextSeriesOffenseDeep ==
  /\ variant = "App.jsx"
  /\ Len(history) < MaxSeries + 1
  /\ \E t \in nextSeries(S, "Offense") : Commit(t)
  /\ UNCHANGED <<nextId, variant>>

NextFair ==
  \/ NextSeriesOffenseDeep
  \/ Undo
  \/ SetTeamSize
  \/ ToggleNoRepeat

SpecFair == InitFair /\ [][NextFair]_vars

(***************************************************************************)
(* SpecElig: the ability flags and the per-player allow-lists.  Two stored *)
(* states: one of App.jsx whose roster is just large enough for off_qb to  *)
(* be reached while off_c stays open (the players whose flags are not      *)
(* toggled here were marked unable to play center), and every initial      *)
(* state of part_001, whose roster holds a restricted player.              *)
(***************************************************************************)
QbRank == CHOOSE i \in DOMAIN OFFENSE_ROLES : OFFENSE_ROLES[i] = "off_qb"
EligPlayers == QbRank - 1

InitEligState ==
  LET t == loadInitialState(EligPlayers, EligPlayers)
  IN [t EXCEPT !.roster =
        [i \in DOMAIN t.roster |->
           IF t.roster[i].id > MaxToggleId
           THEN [t.roster[i] EXCEPT !.canCenter = FALSE]
           ELSE t.roster[i]]]

InitElig ==
  \/ /\ StateIs(InitEligState)
     /\ nextId = EligPlayers + 1
     /\ variant = "App.jsx"
  \/ /\ \E t \in loadInitialStateB(InitPlayers, MaxTeamSize) : StateIs(t)
     /\ nextId = InitPlayers + 1
     /\ variant = "part_001"

NextElig ==
  \/ NextSeriesOffense
  \/ Undo
  \/ ToggleAbilityFlag
  \/ NextSeriesOffenseB
  \/ NextSeriesDefenseB
  \/ UndoB
  \/ ToggleActiveB

SpecElig == InitElig /\ [][NextElig]_vars

(***************************************************************************)
(* SpecBench: nothing but series (and their undo) from a stored state with *)
(* one player more than the default and every team size that makes         *)
(* somebody sit, one series longer than a full turn of the bench queue.    *)
(***************************************************************************)
BenchPlayers == InitPlayers + 1

InitBench ==
  /\ \E teamSize \in 1..MaxTeamSize : StateIs(loadInitialState(BenchPlayers, teamSize))
  /\ nextId = BenchPlayers + 1
  /\ variant = "App.jsx"

NextSeriesOffenseRound ==
  /\ variant = "App.jsx"
  /\ Len(history) <= totalActive(S)
  /\ \E t \in nextSeries(S, "Offense") : Commit(t)
  /\ UNCHANGED <<nextId, variant>>

NextSeriesDefenseRound ==
  /\ variant = "App.jsx"
  /\ Len(history) <= totalActive(S)
  /\ \E t \in nextSeries(S, "Defense") : Commit(t)
  /\ UNCHANGED <<nextId, variant>>

NextBench ==
  \/ NextSeriesOffenseRound
  \/ NextSeriesDefenseRound
  \/ Undo

SpecBench == InitBench /\ [][NextBench]_vars

(***************************************************************************)
(* SpecOpening: the first series of a game from the default state of       *)
(* App.jsx (the ten default players, team size 7), and its undo.           *)
(***************************************************************************)
InitOpening ==
  /\ StateIs(loadInitialState(Len(DEFAULT_ROSTER), DEFAULT_TEAM_SIZE))
  /\ nextId = Len(DEFAULT_ROSTER) + 1
  /\ variant = "App.jsx"

NextSeriesOffenseFirst ==
  /\ variant = "App.jsx"
  /\ history = <<>>
  /\ \E t \in nextSeries(S, "Offense") : Commit(t)
  /\ UNCHANGED <<nextId, variant>>

NextOpening ==
  \/ NextSeriesOffenseFirst
  \/ Undo

SpecOpening == InitOpening /\ [][NextOpening]_vars

(***************************************************************************)
(* SpecFormation: the first Offense series when exactly as many players    *)
(* play as the formation has roles, from a stored roster in which every    *)
(* player has both ability flags and from one in which Atticus has both,   *)
(* Barrett can play center only and nobody else has either.                *)
(***************************************************************************)
FormationPlayers == Len(OFFENSE_ROLES)

InitFormation ==
  LET able == loadInitialState(FormationPlayers, FormationPlayers)
      scarce == [able EXCEPT !.roster =
                   [i \in DOMAIN able.roster |->
                      [able.roster[i] EXCEPT
                         !.canQB = (able.roster[i].name = "Atticus"),
                         !.canCenter = (able.roster[i].name \in {"Atticus", "Barrett"})]]]
  IN /\ \E t \in {able, scarce} : StateIs(t)
     /\ nextId = FormationPlayers + 1
     /\ variant = "App.jsx"

SpecFormation == InitFormation /\ [][NextOpening]_vars

(***************************************************************************)
(* Vocabulary of the properties.                                           *)
(***************************************************************************)
Phases == {"Offense", "Defense"}
ActiveIdSet == {p.id : p \in {q \in Range(roster) : q.active}}
ActiveCount == Cardinality(ActiveIdSet)
LastEntry(t) == t.history[Len(t.history)]
MapOf(e) == IF e.phase = "Offense" THEN e.offense.map ELSE e.defense.map
IsRotationLeft(after, before, k) ==
  /\ Len(after) = Len(before)
  /\ \A i \in DOMAIN after : after[i] = before[((i - 1 + k) % Len(before)) + 1]
IsRotationRight(after, before, k) == IsRotationLeft(before, after, k)
\* the players given a role earlier than role r in the same series
AssignedBefore(roles, m, r) ==
  LET at == CHOOSE i \in DOMAIN roles : roles[i] = r
  IN {m[roles[j]] : j \in {k \in 1..(at - 1) : roles[k] \in DOMAIN m}}
PlayerOf(id) == CHOOSE p \in Range(roster) : p.id = id

\* C1: the bench queue has no duplicate and holds exactly the ids of the
\* active players, after any sequence of addPlayer, removePlayer,
\* toggleActive, nextSeries, undo, resetPositionsOnly and startNewGame.
C1_QueueIsActiveSet ==
  /\ \A i, j \in DOMAIN queue : i # j => queue[i] # queue[j]
  /\ Range(queue) = ActiveIdSet

C1_Witness ==
  /\ Len(history) >= 1
  /\ \E p \in Range(roster) : ~p.active
  /\ \E p \in Range(roster) : p.id > InitPlayers
  /\ Len(queue) >= 2

\* C2: in a successful nextSeries the recorded sitting ids are the first
\* sitCount = max(0, activeCount - teamSize) entries of the queue before the
\* call and the playing ids the next teamSize entries; the two are disjoint
\* and together hold every active player.
C2_SitPlaySplit ==
  LET sc == IF ActiveCount - settings.teamSize > 0
            THEN ActiveCount - settings.teamSize ELSE 0
  IN ActiveCount >= settings.teamSize =>
       \A which \in Phases : \A t \in nextSeries(S, which) :
         /\ Len(t.history) = Len(history) + 1
         /\ LastEntry(t).sitIds = SubSeq(queue, 1, sc)
         /\ LastEntry(t).playIds = SubSeq(queue, sc + 1, sc + settings.teamSize)
         /\ Range(LastEntry(t).sitIds) \cap Range(LastEntry(t).playIds) = {}
         /\ Range(LastEntry(t).sitIds) \cup Range(LastEntry(t).playIds) = ActiveIdSet

C2_Witness ==
  /\ Len(history) >= 1
  /\ Len(LastEntry(S).sitIds) >= 2
  /\ Len(LastEntry(S).playIds) >= 1

\* C3: a successful nextSeries leaves the queue rotated left by
\* max(1, sitCount); when nobody sits it still rotates by one.
C3_RotateLeftByAdvance ==
  LET sc == IF ActiveCount - settings.teamSize > 0
            THEN ActiveCount - settings.teamSize ELSE 0
      advance == IF sc >= 1 THEN sc ELSE 1
  IN ActiveCount >= settings.teamSize =>
       \A which \in Phases : \A t \in nextSeries(S, which) :
         IsRotationLeft(Effects(t).queue, queue, advance)

\* a series in which nobody sat has just rotated a queue of two or more by one
C3_Witness ==
  /\ Len(history) >= 1
  /\ LastEntry(S).sitIds = <<>>
  /\ Len(LastEntry(S).playIds) >= 2
  /\ IsRotationLeft(queue, LastEntry(S).playIds, 1)
  /\ queue # LastEntry(S).playIds

\* C4: with fewer active players than the team size, nextSeries of either
\* phase changes nothing.
C4_RejectedSeriesChangesNothing ==
  ActiveCount < settings.teamSize =>
    \A which \in Phases : \A t \in nextSeries(S, which) : Effects(t) = S

\* a rejected call in a state that has a history, counters and a memory to lose
C4_Witness ==
  /\ ActiveCount < settings.teamSize
  /\ Len(history) >= 1
  /\ DOMAIN recentRoleByPlayer # {}
  /\ \E p \in Range(roster) : p.sits > 0

\* C5: in every history entry the role mapping is one-to-one, every assigned
\* id is one of the entry's playing ids and no sitting id has a role.
C5_MappingOneToOne ==
  \A k \in DOMAIN history :
    LET e == history[k]
        m == MapOf(e)
    IN /\ \A r1, r2 \in DOMAIN m : r1 # r2 => m[r1] # m[r2]
       /\ Range(m) \subseteq Range(e.playIds)
       /\ Range(m) \cap Range(e.sitIds) = {}

C5_Witness ==
  /\ Len(history) >= 1
  /\ Cardinality(DOMAIN MapOf(LastEntry(S))) >= 2
  /\ Len(LastEntry(S).sitIds) >= 1

\* C7: the player P given role R is taken from the pool of playing players
\* not yet assigned in this series that pass R's ability check, narrowed to
\* those not blocked by the anti-repeat rule when at least one such player
\* exists; if some pool member had played R zero times then so had P,
\* otherwise nobody in the pool had played R fewer times than P.
C7_FairPick ==
  ActiveCount >= settings.teamSize =>
    \A which \in Phases : \A t \in nextSeries(S, which) :
      LET cur == LastEntry(t)
          m == MapOf(cur)
          roles == IF which = "Offense" THEN OFFENSE_ROLES ELSE DEFENSE_ROLES
          Count(id, r) == PlayerOf(id).pos[r]
          Able(id, r) == /\ r = "off_qb" => PlayerOf(id).canQB
                         /\ r = "off_c" => PlayerOf(id).canCenter
          Blocked(id, r) ==
            /\ settings.noRepeatWindow > 0
            /\ id \in DOMAIN recentRoleByPlayer
            /\ recentRoleByPlayer[id].series >= series + 1 - settings.noRepeatWindow
            /\ recentRoleByPlayer[id].role = ROLE_META[r]
      IN \A r \in DOMAIN m :
           LET able == {q \in Range(cur.playIds) \ AssignedBefore(roles, m, r) : Able(q, r)}
               free == {q \in able : ~Blocked(q, r)}
               pool == IF free # {} THEN free ELSE able
           IN /\ m[r] \in pool
              /\ IF \E q \in pool : Count(q, r) = 0
                 THEN Count(m[r], r) = 0
                 ELSE \A q \in pool : Count(m[r], r) <= Count(q, r)

\* a player has just been given a role it had already played: no player of
\* that pool was at zero
C7_Witness ==
  /\ Len(history) >= 2
  /\ \E r \in DOMAIN MapOf(LastEntry(S)) :
       PlayerOf(MapOf(LastEntry(S))[r]).pos[r] >= 2

\* a player has just been given a role it had not played while another
\* playing player had
C7_WitnessZero ==
  /\ Len(history) >= 2
  /\ \E r \in DOMAIN MapOf(LastEntry(S)) :
       /\ PlayerOf(MapOf(LastEntry(S))[r]).pos[r] = 1
       /\ \E q \in Range(LastEntry(S).playIds) : PlayerOf(q).pos[r] >= 1 /\ q # MapOf(LastEntry(S))[r]

\* C8: with the anti-repeat window at one, the family a player is given in
\* series N+1 differs from the family it had in series N, unless every
\* player still available for that role was blocked.
C8_NoFamilyRepeat ==
  (settings.noRepeatWindow = 1 /\ Len(history) >= 1 /\ ActiveCount >= settings.teamSize) =>
    \A which \in Phases : \A t \in nextSeries(S, which) :
      LET prev == LastEntry(S)
          cur == LastEntry(t)
          pm == MapOf(prev)
          m == MapOf(cur)
          roles == IF which = "Offense" THEN OFFENSE_ROLES ELSE DEFENSE_ROLES
          HadFamily(id, r) == \E r0 \in DOMAIN pm : pm[r0] = id /\ ROLE_META[r0] = ROLE_META[r]
          Able(id, r) == /\ r = "off_qb" => PlayerOf(id).canQB
                         /\ r = "off_c" => PlayerOf(id).canCenter
      IN /\ cur.series = prev.series + 1
         /\ \A r \in DOMAIN m :
              HadFamily(m[r], r) =>
                \A q \in Range(cur.playIds) \ AssignedBefore(roles, m, r) :
                  Able(q, r) => HadFamily(q, r)

\* two consecutive series of one phase in which a player changed family
C8_Witness ==
  /\ Len(history) >= 2
  /\ settings.noRepeatWindow = 1
  /\ LET prev == history[Len(history) - 1]
         cur == history[Len(history)]
     IN /\ cur.series = prev.series + 1
        /\ cur.phase = prev.phase
        /\ \E r0 \in DOMAIN MapOf(prev), r \in DOMAIN MapOf(cur) :
             /\ MapOf(prev)[r0] = MapOf(cur)[r]
             /\ ROLE_META[r0] # ROLE_META[r]
             /\ \E q \in Range(cur.playIds) : q # MapOf(cur)[r]

\* two consecutive series in which a player kept its family: the fallback
C8_WitnessFallback ==
  /\ Len(history) >= 2
  /\ settings.noRepeatWindow = 1
  /\ LET prev == history[Len(history) - 1]
         cur == history[Len(history)]
     IN \E r0 \in DOMAIN MapOf(prev), r \in DOMAIN MapOf(cur) :
          /\ MapOf(prev)[r0] = MapOf(cur)[r]
          /\ ROLE_META[r0] = ROLE_META[r]

\* what C9 names: sits and role counts (the roster), the bench queue, the
\* recent-role memory, the series counter and the history
Restored(u, t) ==
  /\ u.roster = t.roster
  /\ u.queue = t.queue
  /\ u.recentRoleByPlayer = t.recentRoleByPlayer
  /\ u.series = t.series
  /\ u.history = t.history

\* C9: from a state with activeCount >= teamSize, nextSeries followed at once
\* by undo restores sits, role counts, queue order, recent-role memory, series
\* counter and history; two series followed by two undos do so as well, the
\* first undo giving back the state between the two series.
C9_UndoRoundTrip ==
  ActiveCount >= settings.teamSize =>
    \A w1 \in Phases : \A t1 \in nextSeries(S, w1) :
      /\ Len(Effects(t1).history) = Len(history) + 1
      /\ Restored(Effects(undo(Effects(t1))), S)
      /\ \A w2 \in Phases : \A t2 \in nextSeries(Effects(t1), w2) :
           /\ Restored(Effects(undo(Effects(t2))), Effects(t1))
           /\ Restored(Effects(undo(Effects(undo(Effects(t2))))), S)

\* a state with series, sits and a memory behind it, somebody sitting, from
\* which the round trip is taken
C9_Witness ==
  /\ ActiveCount > settings.teamSize
  /\ Len(history) >= 1
  /\ Len(history) < MaxSeries
  /\ DOMAIN recentRoleByPlayer # {}
  /\ \E p \in Range(roster) : p.sits > 0
  /\ \E p \in Range(roster) : \E r \in DOMAIN p.pos : p.pos[r] > 0

\* C10: every undo rotates the bench queue right by the advance
\* max(1, sitCount) that nextSeries used for the undone entry (the number of
\* ids the entry recorded as sitting, floored at one), whatever happened to
\* the team size or the attendance since.
C10_UndoRotatesBySameAdvance ==
  Len(history) >= 1 =>
    LET sat == Len(LastEntry(S).sitIds)
        advance == IF sat >= 1 THEN sat ELSE 1
    IN IsRotationRight(undo(S).queue, queue, advance)

\* the team size was changed after the last series: another number would sit now
C10_Witness ==
  /\ Len(history) >= 1
  /\ Len(queue) >= 2
  /\ LET now == IF ActiveCount - settings.teamSize > 0
                THEN ActiveCount - settings.teamSize ELSE 0
     IN now # Len(LastEntry(S).sitIds)

\* the roles the one restricted player of part_001 may be given
AllowList(name) ==
  IF name = "Atticus"
  THEN {"off_te_left", "off_te_right", "def_de_left", "def_de_right", "def_dt"}
  ELSE Range(OFFENSE_ROLES) \cup Range(DEFENSE_ROLES)

\* C6: no series gives off_qb to a player whose canQB flag is false or off_c
\* to a player whose canCenter flag is false at the time of the series; in
\* part_001 a restricted player is given no role outside its allow-list.
\* (Every step that lengthens the history is a series; the flags it read are
\* those of the state it started from.)
C6_AbilityRespected ==
  [][Len(history') > Len(history) =>
       LET m == MapOf(history'[Len(history')])
       IN \A r \in DOMAIN m :
            /\ r = "off_qb" => PlayerOf(m[r]).canQB
            /\ r = "off_c" => PlayerOf(m[r]).canCenter
            /\ variant = "part_001" => r \in AllowList(PlayerOf(m[r]).name)]_vars

\* App.jsx: off_qb was filled in a series one of whose players may not play it
C6_Witness ==
  /\ variant = "App.jsx"
  /\ Len(history) >= 1
  /\ "off_qb" \in DOMAIN MapOf(LastEntry(S))
  /\ \E q \in Range(LastEntry(S).playIds) :
       /\ ~PlayerOf(q).canQB
       /\ q \in Range(MapOf(LastEntry(S)))
       /\ MapOf(LastEntry(S))["off_qb"] # q

\* App.jsx: off_qb stayed open because the one player left may not play it
C6_WitnessOpen ==
  /\ variant = "App.jsx"
  /\ Len(history) >= 1
  /\ "off_qb" \notin DOMAIN MapOf(LastEntry(S))
  /\ "off_rb_right" \in DOMAIN MapOf(LastEntry(S))
  /\ ~PlayerOf(MapOf(LastEntry(S))["off_rb_right"]).canQB

\* part_001: the restricted player played a series in which off_qb or off_c,
\* the roles filled first, were not given to it
C6_WitnessAllowList ==
  /\ variant = "part_001"
  /\ Len(history) >= 1
  /\ \E r \in DOMAIN MapOf(LastEntry(S)) :
       /\ PlayerOf(MapOf(LastEntry(S))[r]).name = "Atticus"
       /\ r \in {"off_te_left", "off_te_right", "def_de_left", "def_de_right", "def_dt"}
  /\ "off_c" \notin DOMAIN MapOf(LastEntry(S))
  /\ LastEntry(S).phase = "Offense"

\* C11: undo with an empty history changes nothing (roster counters, bench
\* queue, series counter, recent-role memory); and no undo leaves a sits
\* count, a role count or the series counter negative.
C11_UndoEmptyAndNonNegative ==
  LET u == Effects(undo(S))
  IN /\ history = <<>> =>
          /\ u.roster = roster
          /\ u.queue = queue
          /\ u.series = series
          /\ u.recentRoleByPlayer = recentRoleByPlayer
          /\ u.history = <<>>
     /\ u.series >= 0
     /\ \A p \in Range(u.roster) :
          /\ p.sits >= 0
          /\ \A r \in DOMAIN p.pos : p.pos[r] >= 0

\* an empty history in a state that still has sits and a queue to disturb
C11_Witness ==
  /\ history = <<>>
  /\ Len(queue) >= 2
  /\ \E p \in Range(roster) : p.sits > 0

\* the ids sitting in each of k series run from state s, by the slices and
\* the rotation nextSeries takes
RECURSIVE BenchRun(_, _)
BenchRun(s, k) ==
  IF k = 0 THEN <<>>
  ELSE <<seriesSitIds(s)>>
         \o BenchRun([s EXCEPT !.queue = rotateQueue(s.queue, seriesAdvance(s))], k - 1)

\* C12: with roster, attendance and team size constant and sitCount >= 1,
\* over any activeCount consecutive series every active player's sits grows
\* by exactly sitCount (every sits count being the number of recorded series
\* the player sat in); with 9 active players and team size 7 every player
\* has sat exactly twice after 9 series.
C12_BenchCoverage ==
  LET n == ActiveCount
      sc == n - settings.teamSize
      SatIn(id, from, to) ==
        Cardinality({j \in from..to : id \in Range(history[j].sitIds)})
      nine == BenchRun(loadInitialState(9, 7), 9)
  IN /\ \A p \in Range(roster) : p.sits = SatIn(p.id, 1, Len(history))
     /\ (sc >= 1 /\ Len(history) >= n) =>
          \A k \in 0..(Len(history) - n) : \A id \in ActiveIdSet :
            SatIn(id, k + 1, k + n) = sc
     /\ \A id \in 1..9 : Cardinality({j \in 1..9 : id \in Range(nine[j])}) = 2

\* more series than players, two sitting out of four each time
C12_Witness ==
  /\ ActiveCount - settings.teamSize = 2
  /\ ActiveCount = 4
  /\ Len(history) > ActiveCount

\* C13: a game started with 10 active players, all able to play quarterback
\* and center, and team size 7: after each of three consecutive Offense
\* series, whatever the random choices, no player's off_qb count exceeds 1.
C13_NoSecondQuarterback ==
  LET QbOnce(t) == \A p \in Range(t.roster) : p.pos["off_qb"] <= 1
  IN (Len(history) = 1 /\ series = 1 /\ ActiveCount = 10 /\ settings.teamSize = 7) =>
       /\ QbOnce(S)
       /\ \A t2 \in nextSeries(S, "Offense") :
            /\ QbOnce(t2)
            /\ \A t3 \in nextSeries(Effects(t2), "Offense") : QbOnce(t3)

\* C14: within one Offense series off_qb and off_c are resolved before every
\* role without an ability check: when one of them is resolved, no playing
\* player who passes its check has already been given an unconstrained role.
C14_ConstrainedRolesFirst ==
  LET order == PhaseRoles("Offense")
      Constrained == {"off_qb", "off_c"}
      Place(r) == CHOOSE i \in DOMAIN order : order[i] = r
      Able(id, r) == IF r = "off_qb" THEN PlayerOf(id).canQB ELSE PlayerOf(id).canCenter
  IN ActiveCount >= settings.teamSize =>
       \A t \in nextSeries(S, "Offense") :
         LET m == MapOf(LastEntry(t))
         IN \A r \in Constrained : \A r0 \in DOMAIN m \ Constrained :
              Place(r0) < Place(r) => ~Able(m[r0], r)

\* C15: addPlayer with a name that equals an existing player's name ignoring
\* case changes nothing: roster, bench queue (contents and order), counters
\* and captain plan are identical before and after.
C15_DuplicateNameIsNoOp ==
  \A name \in PromptNames :
    (name # "" /\ nameExists(S, name)) =>
      LET t == Effects(addPlayer(S, name, nextId))
      IN /\ t.roster = roster
         /\ t.queue = queue
         /\ t.series = series
         /\ t.captainPlan = captainPlan

\* a duplicate name can be entered while the queue is out of roster order
C15_Witness ==
  /\ \E name \in PromptNames : name # "" /\ nameExists(S, name)
  /\ queue # ActiveIdSeq(roster)

\* C16: when toggleActive or a successful addPlayer changes the active set,
\* the ids that were in the queue and are still active keep their relative
\* order, and a newly active id stands after all of them.
C16_QueueOrderPreserved ==
  LET Keeps(t) ==
        LET kept == SelectSeq(queue, LAMBDA q : q \in Range(ActiveIdSeq(t.roster)))
            fresh == SelectSeq(t.queue, LAMBDA q : q \notin Range(queue))
        IN t.queue = kept \o fresh
  IN /\ \A id \in RosterIds : Keeps(Effects(toggleActive(S, id)))
     /\ \A name \in PromptNames :
          (name # "" /\ ~nameExists(S, name)) => Keeps(Effects(addPlayer(S, name, nextId)))

\* the queue is out of roster order when the active set is about to change
C16_Witness ==
  /\ Len(queue) >= 2
  /\ queue # ActiveIdSeq(roster)
  /\ \E p \in Range(roster) : ~p.active

\* what a reset must leave alone: who is on the roster, and every captain count
SameMembersAndCaptains(t) ==
  /\ Len(t.roster) = Len(roster)
  /\ \A i \in DOMAIN roster :
       /\ t.roster[i].id = roster[i].id
       /\ t.roster[i].name = roster[i].name
       /\ t.roster[i].captains = roster[i].captains

C18_StartNewGame ==
  LET t == Effects(startNewGame(S))
      n == Len(seasonHistory)
      summary == t.seasonHistory[n + 1]
      activeNames == {p.name : p \in {q \in Range(roster) : q.active}}
  IN /\ \A p \in Range(t.roster) :
          /\ p.sits = 0
          /\ \A r \in DOMAIN p.pos : p.pos[r] = 0
     /\ t.history = <<>>
     /\ DOMAIN t.recentRoleByPlayer = {}
     /\ t.series = 0
     /\ Range(t.queue) = ActiveIdSet
     /\ Len(t.queue) = ActiveCount
     /\ t.gameNumber = gameNumber + 1
     /\ Len(t.seasonHistory) = n + 1
     /\ SubSeq(t.seasonHistory, 1, n) = seasonHistory
     /\ summary.game = gameNumber
     /\ Range(summary.attendance) = activeNames
     /\ Len(summary.attendance) = ActiveCount
     /\ summary.seriesPlayed = Len(history)
     /\ SameMembersAndCaptains(t)

\* a new game was started after a series, with a player absent and a
\* captain already counted
C18_Witness ==
  /\ gameNumber = 2
  /\ history = <<>>
  /\ seasonHistory # <<>>
  /\ seasonHistory[Len(seasonHistory)].seriesPlayed >= 1
  /\ Len(seasonHistory[Len(seasonHistory)].attendance) < Len(roster)
  /\ \E p \in Range(roster) : p.captains > 0
  /\ \A p \in Range(roster) : p.sits = 0

\* C19: after removePlayer(id) the id appears neither in the roster, nor in
\* the queue, nor in the recent-role memory, nor in the recent or pending
\* captain picks; every other player's record is unchanged and the other
\* ids keep their relative order in the queue.
C19_RemovePurgesId ==
  \A id \in RosterIds :
    LET t == Effects(removePlayer(S, id))
        Before(q, a, b) == \E i, j \in DOMAIN q : i < j /\ q[i] = a /\ q[j] = b
    IN /\ \A p \in Range(t.roster) : p.id # id
       /\ id \notin Range(t.queue)
       /\ id \notin DOMAIN t.recentRoleByPlayer
       /\ id \notin Range(t.captainPlan.recentPicks)
       /\ id \notin Range(t.captainPlan.pendingPicks)
       /\ Len(t.roster) = Len(roster) - 1
       /\ \A p \in Range(roster) : p.id # id => p \in Range(t.roster)
       /\ Range(t.queue) = Range(queue) \ {id}
       /\ Len(t.queue) = Cardinality(Range(t.queue))
       /\ \A a, b \in Range(t.queue) : Before(t.queue, a, b) <=> Before(queue, a, b)

\* a player who stands inside the queue, has a remembered role and is both a
\* recent and a pending captain pick
C19_Witness ==
  \E id \in RosterIds :
    /\ Len(queue) >= 3
    /\ id \in Range(queue)
    /\ queue[1] # id
    /\ id \in DOMAIN recentRoleByPlayer
    /\ id \in Range(captainPlan.recentPicks)
    /\ id \in Range(captainPlan.pendingPicks)

\* C20: after a successful nextSeries the recent-role memory maps every
\* player given a role to the family of that role (its ROLE_META label) and
\* the new series number, and is unchanged for every player who sat or was
\* given no role.
C20_RecentMemoryUpdated ==
  \A which \in Phases : \A t \in nextSeries(S, which) :
    Len(t.history) = Len(history) + 1 =>
      LET m == MapOf(LastEntry(t))
          assigned == {m[r] : r \in DOMAIN m}
      IN /\ \A r \in DOMAIN m :
              /\ m[r] \in DOMAIN t.recentRoleByPlayer
              /\ t.recentRoleByPlayer[m[r]] = [role |-> ROLE_META[r], series |-> series + 1]
         /\ \A id \in (DOMAIN recentRoleByPlayer \cup DOMAIN t.recentRoleByPlayer) \ assigned :
              /\ id \in DOMAIN recentRoleByPlayer
              /\ id \in DOMAIN t.recentRoleByPlayer
              /\ t.recentRoleByPlayer[id] = recentRoleByPlayer[id]

\* a series is about to start in which a player with a remembered role sits
C20_Witness ==
  /\ ActiveCount >= settings.teamSize
  /\ Len(queue) > settings.teamSize
  /\ queue[1] \in DOMAIN recentRoleByPlayer
  /\ Len(history) < MaxSeries
  /\ series >= 1

\* C21: every successful nextSeries appends exactly one history entry that
\* carries the phase, the series number (previous counter + 1), the sitting
\* and the playing ids, the mapping of the phase that was run, null for the
\* other phase, and the recent-role memory as it was before the call; and
\* after any sequence of nextSeries, undo, resetPositionsOnly and
\* startNewGame the series counter is the length of the history and the
\* k-th entry carries series number k.
C21_HistoryEntry ==
  /\ series = Len(history)
  /\ \A k \in DOMAIN history : history[k].series = k
  /\ ActiveCount >= settings.teamSize =>
       \A which \in Phases : \A t \in nextSeries(S, which) :
         LET n == Len(history)
             e == LastEntry(t)
             ran == IF which = "Offense" THEN e.offense ELSE e.defense
             other == IF which = "Offense" THEN e.defense ELSE e.offense
             sat == {i \in DOMAIN roster : t.roster[i].sits = roster[i].sits + 1}
         IN /\ Len(t.history) = n + 1
            /\ SubSeq(t.history, 1, n) = history
            /\ e.phase = which
            /\ e.series = series + 1
            /\ t.series = series + 1
            /\ Range(e.sitIds) = {roster[i].id : i \in sat}
            /\ Len(e.playIds) = settings.teamSize
            /\ e.sitIds \o e.playIds = SubSeq(queue, 1, Len(e.sitIds) + Len(e.playIds))
            /\ ~ran.null
            /\ Range(ran.map) \subseteq Range(e.playIds)
            /\ other.null
            /\ e.recentBefore = recentRoleByPlayer

\* a second game in which a series has been recorded after an earlier one
\* was undone or reset, with a remembered role to snapshot
C21_Witness ==
  /\ gameNumber = 2
  /\ Len(history) = 2
  /\ DOMAIN history[2].recentBefore # {}
  /\ history[2].sitIds # <<>>
  /\ Len(queue) >= settings.teamSize

RECURSIVE SumSeq(_)
SumSeq(seq) == IF seq = <<>> THEN 0 ELSE seq[1] + SumSeq(Tail(seq))

\* C23: for N >= 1 active players and G >= 1 games remaining,
\* calculateCaptainGroups(N, G) returns min(N, G) group sizes, all positive,
\* that sum to N, differ pairwise by at most 1 and are in non-decreasing
\* order; for N <= 0 it returns no groups.  (N and G are those of the state,
\* and the same with up to MaxExtraPlayers more players and MaxExtraGames
\* more games.)
C23_CaptainGroups ==
  \A extra \in 0..MaxExtraPlayers : \A more \in 0..MaxExtraGames :
    LET N == ActiveCount + extra
        G == captainPlan.gamesRemaining + more
        groups == calculateCaptainGroups(N, G)
    IN /\ G >= 1
       /\ N = 0 => groups = <<>>
       /\ calculateCaptainGroups(0 - N, G) = <<>>
       /\ N >= 1 =>
            /\ Len(groups) = Min(N, G)
            /\ \A i \in DOMAIN groups : groups[i] > 0
            /\ SumSeq(groups) = N
            /\ \A i, j \in DOMAIN groups : groups[i] - groups[j] <= 1
            /\ \A i, j \in DOMAIN groups : i <= j => groups[i] <= groups[j]

\* the players present do not divide evenly over the games that remain
C23_Witness ==
  /\ ActiveCount = 3
  /\ captainPlan.gamesRemaining = 2
  /\ captainGroups(S) = <<1, 2>>

\* C24: every pickNextCaptains call that changes the state selects pairwise
\* distinct ids of active players, as many as the current group's size and
\* never more than there are active players, and no selected player has a
\* strictly higher captain count than an active player who was not selected.
C24_PickLowestCounts ==
  \A u \in pickNextCaptains(S) :
    LET t == Effects(u)
        picks == t.captainPlan.pendingPicks
    IN t # S =>
         /\ \A i, j \in DOMAIN picks : i # j => picks[i] # picks[j]
         /\ Range(picks) \subseteq ActiveIdSet
         /\ Len(picks) = nextCaptainGroupSize(S)
         /\ Len(picks) <= ActiveCount
         /\ \A a \in Range(picks) : \A b \in ActiveIdSet \ Range(picks) :
              PlayerOf(a).captains <= PlayerOf(b).captains

\* a pick that leaves somebody out while the player first by name has been
\* captain more often than another
C24_Witness ==
  /\ pickNextCaptains(S) # {S}
  /\ nextCaptainGroupSize(S) < ActiveCount
  /\ \E a, b \in ActiveIdSet :
       /\ PlayerOf(a).captains > PlayerOf(b).captains
       /\ NameRank(PlayerOf(a).name) < NameRank(PlayerOf(b).name)

\* the active players tied on captain count at the cut-off of the next pick,
\* when the group cannot take them all ({} otherwise)
TiedAtCutOff ==
  LET size == nextCaptainGroupSize(S)
      Below(c) == {id \in ActiveIdSet : PlayerOf(id).captains < c}
      UpTo(c) == {id \in ActiveIdSet : PlayerOf(id).captains <= c}
      cuts == {c \in {PlayerOf(id).captains : id \in ActiveIdSet} :
                 /\ Cardinality(Below(c)) < size
                 /\ Cardinality(UpTo(c)) > size}
  IN UNION {UpTo(c) \ Below(c) : c \in cuts}

\* C25: when more active players are tied on captain count at the cut-off
\* than the group can take, the choice among them is random: for each tied
\* player some outcome of pickNextCaptains has that player among the picks.
C25_TiesDrawnAtRandom ==
  \A id \in TiedAtCutOff :
    \E u \in pickNextCaptains(S) : id \in Range(u.captainPlan.pendingPicks)

\* three players tied for a group of one
C25_Witness ==
  /\ Cardinality(TiedAtCutOff) = 3
  /\ nextCaptainGroupSize(S) = 1

\* C26: pickNextCaptains followed by acceptPendingCaptains raises the captain
\* count of exactly the picked players by 1, leaves every other captain
\* count unchanged and moves the group pointer one group on (capped at the
\* last group); acceptPendingCaptains changes nothing when the number of
\* distinct active pending ids differs from the current group's size; and
\* pickNextCaptains alone changes no captain count.
C26_CompletedPick ==
  LET groups == captainGroups(S)
      CaptainsOf(t) == [i \in DOMAIN t.roster |-> t.roster[i].captains]
  IN /\ \A u \in pickNextCaptains(S) :
          LET picked == Effects(u)
              picks == Range(picked.captainPlan.pendingPicks)
              t == Effects(acceptPendingCaptains(picked))
          IN /\ CaptainsOf(picked) = CaptainsOf(S)
             /\ (ActiveCount > 0 /\ nextCaptainGroupSize(S) > 0) =>
                  /\ picks # {}
                  /\ \A i \in DOMAIN roster :
                       t.roster[i].captains =
                         roster[i].captains + (IF roster[i].id \in picks THEN 1 ELSE 0)
                  /\ t.captainPlan.nextGroupIndex =
                       Min(captainPlan.nextGroupIndex + 1, Len(groups) - 1)
     /\ Cardinality(Range(captainPlan.pendingPicks) \cap ActiveIdSet) # nextCaptainGroupSize(S)
          => Effects(acceptPendingCaptains(S)) = S

\* a pick is due for a group that is not the last, after an earlier one
\* was accepted
C26_Witness ==
  /\ captainPlan.nextGroupIndex + 1 < Len(captainGroups(S))
  /\ captainPlan.nextGroupIndex >= 1
  /\ \E p, q \in Range(roster) : p.active /\ q.active /\ p.captains # q.captains
  /\ captainPlan.pendingPicks = <<>>

\* every state reached from s by k rounds of pickNextCaptains followed by
\* acceptPendingCaptains
RECURSIVE AfterRounds(_, _)
AfterRounds(s, k) ==
  IF k = 0 THEN {s}
  ELSE UNION {{Effects(acceptPendingCaptains(Effects(u))) : u \in pickNextCaptains(t)} :
                t \in AfterRounds(s, k - 1)}

\* C27: starting at the first group with all active players at the same
\* captain count and keeping attendance and gamesRemaining as they are,
\* one pickNextCaptains and acceptPendingCaptains per group consumes the
\* groups in order, the counts of active players never differ by more than
\* 1 in between, and after the last group every active player's count has
\* grown by exactly 1.
C27_BalancedRound ==
  LET groups == captainGroups(S)
      start == {PlayerOf(id).captains : id \in ActiveIdSet}
      CountOf(t, id) == byId(t, id).captains
  IN (ActiveCount >= 1 /\ Cardinality(start) = 1 /\ captainPlan.nextGroupIndex = 0) =>
       \A k \in 1..Len(groups) : \A t \in AfterRounds(S, k) :
         /\ \A a, b \in ActiveIdSet : CountOf(t, a) - CountOf(t, b) <= 1
         /\ Cardinality({id \in ActiveIdSet : CountOf(t, id) = PlayerOf(id).captains + 1})
              = SumSeq(SubSeq(groups, 1, k))
         /\ \A id \in ActiveIdSet : CountOf(t, id) \in {PlayerOf(id).captains,
                                                        PlayerOf(id).captains + 1}
         /\ t.captainPlan.nextGroupIndex = Min(k, Len(groups) - 1)
         /\ k = Len(groups) =>
              \A id \in ActiveIdSet : CountOf(t, id) = PlayerOf(id).captains + 1

\* a second round is about to start: everybody present has been captain
\* once and the groups are uneven
C27_Witness ==
  /\ ActiveCount = 3
  /\ captainGroups(S) = <<1, 2>>
  /\ captainPlan.nextGroupIndex = 0
  /\ \A id \in ActiveIdSet : PlayerOf(id).captains = 1

\* the picks of one pickCaptainsAlphabetical call that led from s to t
PicksOfCall(s, t) == IF t = s THEN <<>> ELSE t.captainPlan.recentPicks

\* C28: every pickCaptainsAlphabetical(n) of part_000 picks pairwise
\* distinct players, all of them active, at most min(n, active players) of
\* them, raises the captain count of exactly the picked players by 1, and
\* ends (its loop runs at most twice the queue length) for every roster and
\* every pointer value.
C28_AlphabeticalPickSafe ==
  variant = "part_000" =>
    \A n \in 0..MaxTargetCount : \A pointer \in 0..(Len(captainQueue) + 1) :
      LET s == [S EXCEPT !.captainIndex = pointer]
          t == queueEffect(pickCaptainsAlphabetical(s, n))
          picks == PicksOfCall(s, t)
          loop == fillFromPointer(s, n, serveIOUs(s, n, 1, <<>>), pointer, 0)
      IN /\ \A i, j \in DOMAIN picks : i # j => picks[i] # picks[j]
         /\ Range(picks) \subseteq ActiveIdSet
         /\ Len(picks) <= Min(n, ActiveCount)
         /\ \A i \in DOMAIN roster :
              t.roster[i].captains =
                roster[i].captains + (IF roster[i].id \in Range(picks) THEN 1 ELSE 0)
         /\ loop.safety <= 2 * Len(captainQueue)

\* a pick with somebody absent, more asked for than are present, and the
\* pointer inside the queue
C28_Witness ==
  /\ variant = "part_000"
  /\ ActiveCount = 1
  /\ Len(roster) = 3
  /\ captainIndex = 2
  /\ captainPlan.recentPicks # <<>>

\* C29: pickCaptainsAlphabetical(n) of part_000 picks the present players of
\* the IOU backlog first, in queue order and up to n, then fills from the
\* pointer in alphabetical order, wrapping round and skipping absent and
\* already picked players; afterwards exactly the served IOUs have left the
\* backlog (an absent owed player stays owed) and the pointer is one past
\* the last player the fill considered, modulo the queue length.
C29_AlphabeticalPickOrder ==
  variant = "part_000" =>
    \A n \in 0..MaxTargetCount :
      LET t == queueEffect(pickCaptainsAlphabetical(S, n))
          picks == PicksOfCall(S, t)
          len == Len(captainQueue)
          owed == SelectSeq(captainQueue,
                            LAMBDA id : id \in ActiveIdSet /\ id \in Range(captainIOUs))
          served == SubSeq(owed, 1, Min(n, Len(owed)))
          circle == [j \in 1..len |-> captainQueue[((captainIndex + j - 1) % len) + 1]]
          free == SelectSeq(circle, LAMBDA id : id \in ActiveIdSet /\ id \notin Range(served))
          wanted == n - Len(served)
          fill == SubSeq(free, 1, Min(wanted, Len(free)))
          lastAt == CHOOSE j \in 1..len : circle[j] = fill[Len(fill)]
      IN picks # <<>> =>
           /\ picks = served \o fill
           /\ t.captainIOUs = SelectSeq(captainIOUs, LAMBDA id : id \notin Range(served))
           /\ \A id \in Range(captainIOUs) \ ActiveIdSet : id \in Range(t.captainIOUs)
           /\ t.captainIndex =
                IF wanted = 0 THEN captainIndex
                ELSE IF Len(free) >= wanted THEN (captainIndex + lastAt) % len
                ELSE (captainIndex + 2 * len) % len

\* a present and an absent player are owed a turn, and the pointer stands on
\* neither of them
C29_Witness ==
  /\ variant = "part_000"
  /\ Len(roster) = 3
  /\ \E a, b \in Range(captainIOUs) :
       /\ a \in ActiveIdSet
       /\ b \notin ActiveIdSet
       /\ captainQueue[captainIndex + 1] \notin {a, b}
       /\ captainQueue[captainIndex + 1] \in ActiveIdSet

\* C30: importing the file that exportState has just written adopts a state
\* equal to the exported one (roster ids and counts, queue order, series
\* counter, history, settings, recent-role memory, captain plan, game
\* counter, season history), and the effects that follow leave it so.
C30_ImportExportRoundTrip ==
  variant = "App.jsx" =>
    LET t == importState(S, exportState(S))
    IN /\ t.roster = roster
       /\ t.queue = queue
       /\ t.series = series
       /\ t.history = history
       /\ t.settings = settings
       /\ t.recentRoleByPlayer = recentRoleByPlayer
       /\ t.captainPlan = captainPlan
       /\ t.gameNumber = gameNumber
       /\ t.seasonHistory = seasonHistory
       /\ Effects(t) = S

\* a second game with a series played, a captain picked and a player absent:
\* the file holds a history entry with a null mapping and a memory snapshot
C30_Witness ==
  /\ variant = "App.jsx"
  /\ seasonHistory # <<>>
  /\ history # <<>>
  /\ recentRoleByPlayer # EmptyMap
  /\ captainPlan.recentPicks # <<>>
  /\ \E p \in Range(roster) : ~p.active
  /\ importState(S, exportState(S)) = S

\* what normalisation on load establishes
Normalized(u) ==
  /\ \A p \in Range(u.roster) :
        /\ AllRoles \subseteq DOMAIN p.pos
        /\ DOMAIN p.pos \cap DOMAIN LEGACY_ROLE_MAP = {}
  /\ \A e \in Range(u.history) :
        \A m \in {e.offense, e.defense} :
          ~m.null => DOMAIN m.map \cap DOMAIN LEGACY_ROLE_MAP = {}
  /\ Len(u.queue) = Cardinality(Range(u.queue))
  /\ Range(u.queue) \subseteq {p.id : p \in {q \in Range(u.roster) : q.active}}

\* C31: after importState adopts a snapshot the state is normalised as on
\* load: every player has a count for every role, no legacy role key remains
\* in a count table or a history mapping, and the bench queue holds no id
\* twice and no id of an absent, removed or unknown player.
C31_ImportNormalizes ==
  variant = "App.jsx" =>
    \A doc \in Snapshots(S, nextId) :
      LET t == importState(S, doc)
      IN renders(t) => Normalized(Effects(t))

\* a state with a series played, imported from a file that keeps the role
\* keys of the earlier version
C31_Witness ==
  /\ variant = "App.jsx"
  /\ history # <<>>
  /\ \E p \in Range(roster) : "QB" \in DOMAIN p.pos /\ "off_qb" \notin DOMAIN p.pos
  /\ \E e \in Range(history) :
       ~e.offense.null /\ DOMAIN e.offense.map \cap DOMAIN LEGACY_ROLE_MAP # {}

\* C32: a snapshot that parses but lacks the roster, the queue, the history
\* or the settings is refused: the state stays as it was.
C32_MalformedSnapshotRefused ==
  variant = "App.jsx" =>
    \A doc \in Snapshots(S, nextId) :
      LET t == importState(S, doc)
      IN ~renders(t) => t = S

\* a file of the state after one series that lacks a required member has been
\* adopted: what the file holds is the state, and the component is gone
C32_Witness ==
  /\ variant = "unmounted"
  /\ series = 1
  /\ settings # Undefined
  /\ settings.teamSize = MaxTeamSize

\* the active players of the given names
ActiveIdsNamed(names) ==
  {p.id : p \in {q \in Range(roster) : q.active /\ q.name \in Range(names)}}

\* C33: in part_001, while CJ, Niko and Barrett are all active, no series of
\* either phase, whatever the random choices, has all three of them in its
\* sitting ids.
C33_NeverAllOnBench ==
  (variant = "part_001" /\ Cardinality(ActiveIdsNamed(BENCH_NEVER_ALL)) = 3) =>
    \A which \in Phases : \A t \in nextSeriesB(S, which) :
      t.series = series + 1 =>
        ~(ActiveIdsNamed(BENCH_NEVER_ALL) \subseteq Range(LastEntry(t).sitIds))

\* the three stand at the head of the queue when three players sit and the
\* first Offense series has been played: the next Offense series would bench
\* them all
C33_Witness ==
  /\ variant = "part_001"
  /\ Cardinality(ActiveIdsNamed(BENCH_NEVER_ALL)) = 3
  /\ sitCount(S) = 3
  /\ {queue[1], queue[2], queue[3]} = ActiveIdsNamed(BENCH_NEVER_ALL)
  /\ benchMeta.firstOffenseHandled
  /\ history # <<>>

\* the ids of the active players among the names, in the order of the names
ActiveIdSeqNamed(names) ==
  LET here == SelectSeq(names, LAMBDA name : \E p \in Range(roster) : p.active /\ p.name = name)
  IN [i \in DOMAIN here |-> (CHOOSE p \in Range(roster) : p.active /\ p.name = here[i]).id]

\* C34: in part_001, in the first Offense series of a game with at least one
\* player sitting, the first min(sitCount, k) of the k active players among
\* Logan L, Atticus, Gunnar (in that order) are all in the sitting ids; a later
\* Offense series of the game takes its bench from the head of the queue as it
\* is (unless CJ, Niko and Barrett head it).
C34_PriorityBenchOnce ==
  (variant = "part_001" /\ ~seriesRejected(S) /\ sitCount(S) >= 1) =>
    \A t \in nextSeriesB(S, "Offense") :
      LET sit == LastEntry(t).sitIds
          priority == ActiveIdSeqNamed(BENCH_PRIORITY_FIRST_OFFENSE)
          seats == Min(sitCount(S), Len(priority))
          head == SubSeq(queue, 1, sitCount(S))
      IN IF \A e \in Range(history) : e.phase # "Offense"
         THEN \A i \in 1..seats : priority[i] \in Range(sit)
         ELSE ~(/\ Cardinality(ActiveIdsNamed(BENCH_NEVER_ALL)) = 3
                /\ ActiveIdsNamed(BENCH_NEVER_ALL) \subseteq Range(head)) => sit = head

\* one seat for three priority players: Logan L sat in the first Offense
\* series, and the second Offense series benched somebody else
C34_Witness ==
  /\ variant = "part_001"
  /\ Len(ActiveIdSeqNamed(BENCH_PRIORITY_FIRST_OFFENSE)) = 3
  /\ sitCount(S) = 1
  /\ Len(history) = 2
  /\ \A e \in Range(history) : e.phase = "Offense"
  /\ history[1].sitIds = <<ActiveIdSeqNamed(BENCH_PRIORITY_FIRST_OFFENSE)[1]>>
  /\ history[2].sitIds # history[1].sitIds

\* C35: in part_001, in the first Defense series of a game every active
\* player among Logan L, Atticus and Gunnar is in the playing ids, whenever
\* teamSize is at least the number of such players.
C35_MustPlayFirstDefense ==
  LET required == ActiveIdsNamed(MUST_PLAY_FIRST_DEFENSE)
  IN (/\ variant = "part_001"
      /\ ~seriesRejected(S)
      /\ \A e \in Range(history) : e.phase # "Defense"
      /\ settings.teamSize >= Cardinality(required)) =>
       \A t \in nextSeriesB(S, "Defense") :
         required \subseteq Range(LastEntry(t).playIds)

\* before the first Defense series: Logan L must play, two players play, and
\* CJ, Niko and Barrett stand in the queue before Elijah
C35_Witness ==
  /\ variant = "part_001"
  /\ \A e \in Range(history) : e.phase # "Defense"
  /\ ActiveIdsNamed(MUST_PLAY_FIRST_DEFENSE) # {}
  /\ Cardinality(ActiveIdsNamed(BENCH_NEVER_ALL)) = 3
  /\ sitCount(S) = 3
  /\ settings.teamSize = 2
  /\ \E i \in DOMAIN queue :
       /\ PlayerOf(queue[i]).name = "Elijah"
       /\ \A id \in ActiveIdsNamed(BENCH_NEVER_ALL) : \E j \in 1..(i - 1) : queue[j] = id

\* C36: in part_001, nextSeries followed at once by undo restores the bench
\* queue order, every player's sits and role counts, the recent-role memory,
\* the series counter, the history and the bench flags, for the first Offense
\* and the first Defense series of a game as for any other.
C36_UndoRoundTripPriority ==
  (variant = "part_001" /\ ~seriesRejected(S)) =>
    \A which \in Phases : \A t \in nextSeriesB(S, which) :
      \A u \in queueEffectB(t) : \A v \in queueEffectB(undoB(u)) :
        /\ Restored(v, S)
        /\ v.benchMeta = benchMeta

\* before the first Offense series of a game, with a priority player who is
\* not at the head of the queue
C36_Witness ==
  /\ variant = "part_001"
  /\ ~seriesRejected(S)
  /\ ~benchMeta.firstOffenseHandled
  /\ gameNumber = 2
  /\ firstOffenseQueue(S, queue) # queue

\* C37: resetPositionsOnly leaves the series counter, the history, the
\* recent-role memory and the bench queue unchanged.
C37_ResetKeepsHistory ==
  variant = "App.jsx" =>
    LET t == Effects(resetPositionsOnly(S))
    IN /\ t.series = series
       /\ t.history = history
       /\ t.recentRoleByPlayer = recentRoleByPlayer
       /\ t.queue = queue

\* a series has been played and is remembered when the positions are reset
C37_Witness ==
  /\ variant = "App.jsx"
  /\ series >= 1
  /\ history # <<>>
  /\ DOMAIN recentRoleByPlayer # {}
  /\ \E p \in Range(roster) : \E r \in DOMAIN p.pos : p.pos[r] > 0

\* C38: within a game of App.jsx with roster, attendance and team size
\* constant, after any sequence of nextSeries and undo the sits counts of any
\* two active players differ by at most 1, and when 2 * sitCount <=
\* activeCount no player sits in two consecutive series.
C38_BenchIsFair ==
  variant = "App.jsx" =>
    /\ \A p, q \in {x \in Range(roster) : x.active} : p.sits - q.sits <= 1
    /\ 2 * sitCount(S) <= ActiveCount =>
         \A j \in 1..(Len(history) - 1) :
           Range(history[j].sitIds) \cap Range(history[j + 1].sitIds) = {}

\* half of the players sit each time, some have sat once more than others,
\* and the bench has gone round more than once
C38_Witness ==
  /\ variant = "App.jsx"
  /\ sitCount(S) = 2
  /\ ActiveCount = 4
  /\ Len(history) >= 3
  /\ \E p, q \in Range(roster) : p.sits = q.sits + 1

\* the last series gave every role of its formation to a player and every
\* playing player exactly one role
FullyAssigned(e) ==
  /\ DOMAIN MapOf(e) = Range(PhaseRoles(e.phase))
  /\ \A id \in Range(e.playIds) :
        Cardinality({r \in DOMAIN MapOf(e) : MapOf(e)[r] = id}) = 1

\* the playing players can be matched one to one with all roles of the
\* formation within the ability flags: they are as many as the roles, and the
\* roles that have a check can be given to different players who pass it (the
\* other roles take anybody)
PerfectAssignmentExists(e) ==
  LET roles == Range(PhaseRoles(e.phase))
      checked == roles \cap {"off_qb", "off_c"}
  IN /\ Cardinality(Range(e.playIds)) = Cardinality(roles)
     /\ \E g \in [checked -> Range(e.playIds)] :
          /\ \A r1, r2 \in checked : r1 # r2 => g[r1] # g[r2]
          /\ \A r \in checked : ROLE_ABILITY_CHECK(r, PlayerOf(g[r]))

\* C39 as stated: whenever the playing set admits a one-to-one assignment to
\* all roles of the formation that satisfies every ability flag, the series
\* leaves no role open and gives every playing player exactly one role,
\* whatever the random choices.  (No ability flag changes in SpecFormation,
\* so the flags of a state are those its last series read.)
C39_PerfectAssignmentFound ==
  (variant = "App.jsx" /\ history # <<>>) =>
    (PerfectAssignmentExists(LastEntry(S)) => FullyAssigned(LastEntry(S)))

\* C39 amended: whenever as many players play as the formation has roles and
\* every playing player passes every ability check, the series leaves no role
\* open and gives every playing player exactly one role, whatever the random
\* choices.
C39_AllAbleFullyAssigned ==
  (variant = "App.jsx" /\ history # <<>>) =>
    LET e == LastEntry(S)
    IN (/\ Len(e.playIds) = Len(PhaseRoles(e.phase))
        /\ \A id \in Range(e.playIds) : \A r \in Range(PhaseRoles(e.phase)) :
              ROLE_ABILITY_CHECK(r, PlayerOf(id))) => FullyAssigned(e)

\* seven able players have played the first series, quarterback and center
\* among the last roles given
C39_Witness ==
  /\ variant = "App.jsx"
  /\ history # <<>>
  /\ Len(LastEntry(S).playIds) = Len(OFFENSE_ROLES)
  /\ \A p \in Range(roster) : p.canQB /\ p.canCenter
  /\ FullyAssigned(LastEntry(S))

====
